---- MODULE Spec2Model ----
(***************************************************************************)
(* Model of the 3D book-cover renderer (src/renderer.py).                  *)
(*                                                                         *)
(* Three specifications:                                                   *)
(*   Spec        the render_3d_cover pipeline over a heap of list and      *)
(*               image objects (shadow -> merge -> generate -> post);      *)
(*   SpecCompose the canvas composition of _generate_3d_cover at pixel     *)
(*               level (masks, alpha channel);                             *)
(*   SpecPost    _post_process_image at pixel level (scale, centre,        *)
(*               background fill), applied once and then to its output.    *)
(*                                                                         *)
(* Strings stand for the program's literals: "none" = "无",                *)
(* "linear" = "线性", "reflective" = "反射", "softcover" = "平装",         *)
(* "hardcover" = "精装".                                                   *)
(***************************************************************************)
EXTENDS Integers, Sequences, FiniteSets, TLC

VARIABLES
    \* ---- pipeline (Spec) ----
    pc,                 \* stage about to run: shadow, merge, generate, post, done, error
    imgs,               \* heap: image object id -> content (sequence of parts)
    lists,              \* heap: list object id -> sequence of image ids
    nextId,             \* next free object id
    spine_images,       \* the caller's list object (argument of render_3d_cover)
    cover_img,          \* the caller's cover image object
    book_type,          \* argument
    spine_shadow_mode,  \* argument
    assetOk,            \* environment: cv2.imread of the shadow asset succeeds
    overlayFailAt,      \* environment: _overlay_shadow raises on this spine (0: never)
    fault,              \* environment: the stage in which cv2 raises (degenerate size)
    processed_spine_images, \* local of render_3d_cover: list id
    spine_img,          \* local: merged spine image id
    hardcover_spines,   \* local: list id, or None
    result_image,       \* local: image id, or None
    log,                \* the stages that have run, in order
    assetReads,         \* number of cv2.imread calls on a shadow asset
    overlayCalls,       \* number of _overlay_shadow calls
    curlCalls,          \* number of _process_spine_pixels_column calls
    shadowRaised,       \* an exception was caught inside _apply_shadow_to_spines
    \* ---- canvas composition (SpecCompose) ----
    c_pc,               \* "input" before, "done" after the composition
    c_in,               \* the warped panels, their masks and the background
    c_out,              \* the composed image
    \* ---- post-processing (SpecPost) ----
    t_pc,               \* "start", "once", "twice" or "error"
    t_in,               \* img_array, final_size, border_percentage, bg_color, bg_alpha
    t_out1,             \* _post_process_image(img_array, ...): the image returned
                        \* and the locals new_width, new_height, x_offset, y_offset
    t_out2,             \* the same for _post_process_image applied to t_out1.img
    \* ---- geometry of _generate_3d_cover (SpecGeometry) ----
    g_pc,               \* "convert", "cover", "spine", "canvas", "done" or "failed"
    g_in,               \* image shapes and the geometry arguments
    g_out,              \* the locals computed so far, the arrays allocated, the error
    \* ---- the command-line tools (SpecCli) ----
    k_pc,               \* "config", "validate", "load", "render", "save" or "exited"
    k_tool,             \* "cli" (cli.py) or "pdf" (pdf_to_3dcover.py)
    k_cmdline,          \* the namespace parse_args() returned
    k_config,           \* the dictionary json.load() returned, NoConfig without --config
    k_args,             \* the namespace as the tool has it now
    k_call,             \* the arguments render_3d_cover was called with, or NoCall
    k_render,           \* "none", "ok" or "raised": how render_3d_cover ended
    k_raised,           \* the step whose exception reached the except clause
    k_output,           \* the file at args.output
    k_writes,           \* the writes to args.output so far
    k_exit,             \* "running" or the exit status of the process
    \* ---- the curl processor on pixels (SpecCurl) ----
    q_pc,               \* "offsets", "columns" or "done"
    q_in,               \* h, w, the two offsets and the source mask
    q_out,              \* the offset arrays, x_col, processed_image, processed_mask
    \* ---- the sidebar of setup_ui (SpecSidebar) ----
    u_pc,               \* "sidebar", "rest" within a run, "wait" between runs
    u_session,          \* st.session_state: spine_spread_angle, imported_config,
                        \* config_processed
    u_widgets,          \* what the browser holds: the sliders and the uploader
    u_params,           \* the UIParams the last run returned
    u_hist,             \* imports of the file in the uploader, st.rerun() calls
                        \* since the last interaction, whether line 77 ran
    \* ---- the uploads of setup_ui (SpecUploads) ----
    x_pc,               \* "uploads", "images" within a run, "wait" between runs
    x_session,          \* st.session_state: example_mode, saved_cover_image,
                        \* saved_spine_images
    x_widgets,          \* the two uploaders and the button that was clicked
    x_params            \* the images the last run returned

pvars == <<pc, imgs, lists, nextId, spine_images, cover_img, book_type,
           spine_shadow_mode, assetOk, overlayFailAt, fault,
           processed_spine_images, spine_img, hardcover_spines, result_image,
           log, assetReads, overlayCalls, curlCalls, shadowRaised>>

cvars == <<c_pc, c_in, c_out>>
tvars == <<t_pc, t_in, t_out1, t_out2>>
gvars == <<g_pc, g_in, g_out>>
kvars == <<k_pc, k_tool, k_cmdline, k_config, k_args, k_call, k_render, k_raised,
           k_output, k_writes, k_exit>>
qvars == <<q_pc, q_in, q_out>>
uvars == <<u_pc, u_session, u_widgets, u_params, u_hist>>
xvars == <<x_pc, x_session, x_widgets, x_params>>
vars == <<pvars, cvars, tvars, gvars, kvars, qvars, uvars, xvars>>

\* ------------------------------------------------------------------ bounds
MaxSpines == 2
MaxPanelH == 2
MaxCoverW == 2
MaxSpineW == 1
MaxImg == 3
MaxFinal == 5

\* ------------------------------------------------------------------ values
\* Object ids: Python's None, and the objects the caller passes in.
None == 0
CoverId == 1
CallerListId == 2
FirstSpineId == 3

BookTypes == {"softcover", "hardcover"}
ShadowModes == {"none", "linear", "reflective", "glossy"}
Faults == {"none", "warp", "post"}

\* An image's content: one part per source image it was made from, each with
\* the operations applied to it so far, in order.
Part(src) == [src |-> src, ops |-> <<>>]
Orig(id) == <<Part(id)>>

ApplyOp(content, op) ==
    [i \in 1..Len(content) |-> [content[i] EXCEPT !.ops = Append(@, op)]]

RECURSIVE Concat(_)
Concat(ss) == IF ss = <<>> THEN <<>> ELSE Head(ss) \o Concat(Tail(ss))

SpineIds(n) == [i \in 1..n |-> FirstSpineId + i - 1]

\* ------------------------------------------------------------------ heap
\* Allocation of a fresh image / list object.
AllocImg(h, content) ==
    [imgs |-> [id \in DOMAIN h.imgs \cup {h.next} |->
                  IF id = h.next THEN content ELSE h.imgs[id]],
     lists |-> h.lists, next |-> h.next + 1]

AllocList(h, seq) ==
    [imgs |-> h.imgs,
     lists |-> [id \in DOMAIN h.lists \cup {h.next} |->
                  IF id = h.next THEN seq ELSE h.lists[id]],
     next |-> h.next + 1]

Heap == [imgs |-> imgs, lists |-> lists, next |-> nextId]

\* ------------------------------------------------- _apply_shadow_to_spines
\* The static mode-to-asset table (renderer.py 346-349).
shadow_mapping_default ==
    [m \in {"linear", "reflective", "glossy"} |->
        IF m = "reflective" THEN "shadows/reflect.png" ELSE "shadows/linear.png"]

shadow_mapping ==
    [m \in {"linear", "reflective"} |->
        IF m = "linear" THEN "shadows/linear.png" ELSE "shadows/reflect.png"]

\* spine_images.copy(): a new list object holding the same image objects.
ListCopy(h, lst) ==
    LET h2 == AllocList(h, h.lists[lst]) IN [heap |-> h2, ret |-> h.next]

\* The loop of lines 368-378 from spine number i on.  acc is processed_spines;
\* calls counts the _overlay_shadow calls.  Returns the heap, the list built,
\* and whether an exception was raised.
RECURSIVE ShadowLoop(_, _, _, _, _, _)
ShadowLoop(h, lst, i, acc, calls, failAt) ==
    IF i > Len(h.lists[lst])
    THEN [heap |-> h, acc |-> acc, calls |-> calls, raised |-> FALSE]
    ELSE IF i = failAt
    THEN [heap |-> h, acc |-> acc, calls |-> calls + 1, raised |-> TRUE]
    ELSE \* spine_bgr is a fresh array; _overlay_shadow returns a new array;
         \* Image.fromarray makes a new image, appended to processed_spines.
         LET spine == h.lists[lst][i]
             h2 == AllocImg(h, ApplyOp(h.imgs[spine], "shadow"))
         IN ShadowLoop(h2, lst, i + 1, Append(acc, h.next), calls + 1, failAt)

\* What the except branch and the "asset is None" branch return (365, 382).
ShadowFallback_Partial(h, lst, acc) ==
    LET n == Len(h.lists[lst])
        mixed == [i \in 1..n |-> IF i <= Len(acc) THEN acc[i] ELSE h.lists[lst][i]]
        h2 == AllocList(h, mixed)
    IN [heap |-> h2, ret |-> h.next]

ShadowFallback(h, lst, acc) == ListCopy(h, lst)

\* How a finished loop hands back its results (line 384).  The in-place
\* variant overwrites the caller's list instead of returning a new one.
ShadowReturn_InPlace(h, lst, acc) ==
    [heap |-> [h EXCEPT !.lists[lst] = acc], ret |-> lst]

ShadowReturn(h, lst, acc) ==
    LET h2 == AllocList(h, acc) IN [heap |-> h2, ret |-> h.next]

\* The whole of _apply_shadow_to_spines.
ApplyShadowToSpines(h, lst, mode, okAsset, failAt) ==
    IF h.lists[lst] = <<>> \/ mode = "none"
    THEN ListCopy(h, lst) @@ [reads |-> 0, calls |-> 0, raised |-> FALSE]
    ELSE IF mode \notin DOMAIN shadow_mapping
    THEN ListCopy(h, lst) @@ [reads |-> 0, calls |-> 0, raised |-> FALSE]
    ELSE IF ~okAsset
    THEN ListCopy(h, lst) @@ [reads |-> 1, calls |-> 0, raised |-> FALSE]
    ELSE LET r == ShadowLoop(h, lst, 1, <<>>, 0, failAt) IN
         IF r.raised
         THEN ShadowFallback(r.heap, lst, r.acc)
                @@ [reads |-> 1, calls |-> r.calls, raised |-> TRUE]
         ELSE ShadowReturn(r.heap, lst, r.acc)
                @@ [reads |-> 1, calls |-> r.calls, raised |-> FALSE]

\* ------------------------------------------------------------ _merge_spines
\* Each spine is converted to a fresh BGR array and resized to the common
\* height; the resized arrays are pasted right-to-left into a new array.
MergeSpines(h, lst) ==
    LET merged == Concat([i \in 1..Len(h.lists[lst]) |->
                            ApplyOp(ApplyOp(h.imgs[h.lists[lst][i]], "resize"), "merge")])
        h2 == AllocImg(h, merged)
    IN [heap |-> h2, ret |-> h.next]

\* _process_spines: hardcover keeps a copy of the list beside the merged image.
ProcessSpines(h, lst, btype) ==
    LET c == IF btype = "hardcover" THEN ListCopy(h, lst)
                                    ELSE [heap |-> h, ret |-> None]
        m == MergeSpines(c.heap, lst)
    IN [heap |-> m.heap, spine_img |-> m.ret, hardcover_spines |-> c.ret]

\* ------------------------------------------------------- _generate_3d_cover
\* Which spine transform line 517-536 selects: TRUE is _transform_spine_hardcover.
UsesHardcoverTransform_Always(btype) == TRUE

UsesHardcoverTransform(btype) == btype = "hardcover"

\* _transform_spine_hardcover on the contents of the segments: per segment the
\* pivot resize, one call of the curl processor, the display resize; then the
\* right-to-left stitch.
TransformSpineHardcover(contents) ==
    [content |-> Concat([i \in 1..Len(contents) |->
          ApplyOp(ApplyOp(ApplyOp(ApplyOp(contents[i], "resize"), "curl"),
                          "resize"), "stitch")]),
     curls |-> Len(contents)]

\* _transform_spine: the planar quadrilateral warp only.
TransformSpine(content) == [content |-> ApplyOp(content, "warp"), curls |-> 0]

\* The segments handed to the hardcover transform: the list (line 519) or,
\* without one, the single merged spine (line 526).
HardcoverSegments(h, spine, hc) ==
    IF hc # None THEN [i \in 1..Len(h.lists[hc]) |-> h.imgs[h.lists[hc][i]]]
                 ELSE <<h.imgs[spine]>>

Generate3dCover(h, cover, spine, hc, btype) ==
    LET coverW == ApplyOp(h.imgs[cover], "warp")
        sp == IF UsesHardcoverTransform(btype)
              THEN TransformSpineHardcover(HardcoverSegments(h, spine, hc))
              ELSE TransformSpine(h.imgs[spine])
        canvas == ApplyOp(sp.content \o coverW, "compose")
        h2 == AllocImg(h, canvas)
    IN [heap |-> h2, ret |-> h.next, curls |-> sp.curls]

\* ------------------------------------------------------ _post_process_image
PostProcessImage(h, img) ==
    LET h2 == AllocImg(h, ApplyOp(h.imgs[img], "post")) IN [heap |-> h2, ret |-> h.next]

\* ------------------------------------------------------------ render_3d_cover
\* The order of the four calls in render_3d_cover (lines 679-695).
StageOrder_GenerateEarly == <<"shadow", "generate", "merge", "post">>

StageOrder == <<"shadow", "merge", "generate", "post">>

StageAfter(stage) ==
    LET k == CHOOSE i \in 1..Len(StageOrder) : StageOrder[i] = stage
    IN IF k = Len(StageOrder) THEN "done" ELSE StageOrder[k + 1]

PInit ==
    /\ \E n \in 0..MaxSpines :
         /\ lists = [id \in {CallerListId} |-> SpineIds(n)]
         /\ imgs = [id \in {CoverId} \cup {FirstSpineId + i - 1 : i \in 1..n} |-> Orig(id)]
         /\ nextId = FirstSpineId + n
         /\ overlayFailAt \in 0..n
    /\ spine_images = CallerListId
    /\ cover_img = CoverId
    /\ book_type \in BookTypes
    /\ spine_shadow_mode \in ShadowModes
    /\ assetOk \in BOOLEAN
    /\ fault \in Faults
    /\ pc = StageOrder[1]
    /\ processed_spine_images = None
    /\ spine_img = None
    /\ hardcover_spines = None
    /\ result_image = None
    /\ log = <<>>
    /\ assetReads = 0
    /\ overlayCalls = 0
    /\ curlCalls = 0
    /\ shadowRaised = FALSE

\* line 679
ShadowStage ==
    /\ UNCHANGED <<cvars, tvars, gvars, kvars, qvars, uvars, xvars>>
    /\ pc = "shadow"
    /\ LET r == ApplyShadowToSpines(Heap, spine_images, spine_shadow_mode,
                                    assetOk, overlayFailAt)
       IN /\ imgs' = r.heap.imgs
          /\ lists' = r.heap.lists
          /\ nextId' = r.heap.next
          /\ processed_spine_images' = r.ret
          /\ assetReads' = assetReads + r.reads
          /\ overlayCalls' = overlayCalls + r.calls
          /\ shadowRaised' = r.raised
    /\ log' = Append(log, "shadow")
    /\ pc' = StageAfter("shadow")
    /\ UNCHANGED <<spine_images, cover_img, book_type, spine_shadow_mode, assetOk,
                   overlayFailAt, fault, spine_img, hardcover_spines, result_image,
                   curlCalls>>

\* line 682; _merge_spines raises ValueError on an empty list (line 295)
MergeStage ==
    /\ UNCHANGED <<cvars, tvars, gvars, kvars, qvars, uvars, xvars>>
    /\ pc = "merge"
    /\ log' = Append(log, "merge")
    /\ IF lists[processed_spine_images] = <<>>
       THEN /\ pc' = "error"
            /\ UNCHANGED <<imgs, lists, nextId, spine_img, hardcover_spines>>
       ELSE LET r == ProcessSpines(Heap, processed_spine_images, book_type)
            IN /\ imgs' = r.heap.imgs
               /\ lists' = r.heap.lists
               /\ nextId' = r.heap.next
               /\ spine_img' = r.spine_img
               /\ hardcover_spines' = r.hardcover_spines
               /\ pc' = StageAfter("merge")
    /\ UNCHANGED <<spine_images, cover_img, book_type, spine_shadow_mode, assetOk,
                   overlayFailAt, fault, processed_spine_images, result_image,
                   assetReads, overlayCalls, curlCalls, shadowRaised>>

\* line 685; a degenerate size makes the cover warp raise before any spine work
GenerateStage ==
    /\ UNCHANGED <<cvars, tvars, gvars, kvars, qvars, uvars, xvars>>
    /\ pc = "generate"
    /\ log' = Append(log, "generate")
    /\ IF fault = "warp"
       THEN /\ pc' = "error"
            /\ UNCHANGED <<imgs, lists, nextId, result_image, curlCalls>>
       ELSE LET r == Generate3dCover(Heap, cover_img, spine_img, hardcover_spines,
                                     book_type)
            IN /\ imgs' = r.heap.imgs
               /\ lists' = r.heap.lists
               /\ nextId' = r.heap.next
               /\ result_image' = r.ret
               /\ curlCalls' = curlCalls + r.curls
               /\ pc' = StageAfter("generate")
    /\ UNCHANGED <<spine_images, cover_img, book_type, spine_shadow_mode, assetOk,
                   overlayFailAt, fault, processed_spine_images, spine_img,
                   hardcover_spines, assetReads, overlayCalls, shadowRaised>>

\* line 693; cv2.resize raises on an empty target size
PostStage ==
    /\ UNCHANGED <<cvars, tvars, gvars, kvars, qvars, uvars, xvars>>
    /\ pc = "post"
    /\ log' = Append(log, "post")
    /\ IF fault = "post"
       THEN /\ pc' = "error"
            /\ UNCHANGED <<imgs, lists, nextId, result_image>>
       ELSE LET r == PostProcessImage(Heap, result_image)
            IN /\ imgs' = r.heap.imgs
               /\ lists' = r.heap.lists
               /\ nextId' = r.heap.next
               /\ result_image' = r.ret
               /\ pc' = StageAfter("post")
    /\ UNCHANGED <<spine_images, cover_img, book_type, spine_shadow_mode, assetOk,
                   overlayFailAt, fault, processed_spine_images, spine_img,
                   hardcover_spines, assetReads, overlayCalls, curlCalls, shadowRaised>>

\* ================================================================ pixels
\* An image is [h, w, ch, px]: px[y][x] is the tuple of its ch channel values.
Max(a, b) == IF a >= b THEN a ELSE b

NoImage == [h |-> 0, w |-> 0, ch |-> 0, px |-> <<>>]

\* cv2.cvtColor(..., COLOR_BGR2RGB) / RGB2BGR on one pixel.
SwapRB(p) == <<p[3], p[2], p[1]>>

\* _hex_to_rgb applied to the colours the model uses ("#ffffff", "#102030").
BgColours == {<<255, 255, 255>>, <<16, 32, 48>>}
ContentColour == <<200, 100, 0>>
Opaque == 255
GrayStroke == <<128, 128, 128>>

\* ------------------------------------------- _generate_3d_cover, 538-587
\* The mask a warp leaves: a panel whose far column (the cover's right, the
\* spine's left) may lose its top and its bottom pixel to the fill colour.
PanelMask(h, w, farCol, clipTop, clipBot) ==
    [y \in 0..h-1 |-> [x \in 0..w-1 |->
        ~(x = farCol /\ ((clipTop /\ y = 0) \/ (clipBot /\ y = h - 1)))]]

\* A warped panel in BGR: content where the mask is true, borderValue elsewhere.
WarpedPanel(h, w, mask, colour_bgr, bg_bgr) ==
    [h |-> h, w |-> w, ch |-> 3,
     px |-> [y \in 0..h-1 |-> [x \in 0..w-1 |->
                IF mask[y][x] THEN colour_bgr ELSE bg_bgr]]]

\* full_mask of lines 554-562: the content masks shifted to canvas positions.
FullMask(in, y, x) ==
    LET dsw == in.spine_warped.w IN
    \/ x >= dsw /\ y < in.cover_warped.h /\ in.cover_mask[y][x - dsw]
    \/ x < dsw /\ y < in.spine_warped.h /\ in.spine_mask[y][x]

\* rgb_image after the two placements of lines 543-549.
PlacedRgb(in, y, x) ==
    LET dsw == in.spine_warped.w IN
    IF x < dsw /\ y < in.spine_warped.h THEN SwapRB(in.spine_warped.px[y][x])
    ELSE IF x >= dsw /\ y < in.cover_warped.h THEN SwapRB(in.cover_warped.px[y][x - dsw])
    ELSE SwapRB(in.bg_color_bgr)

\* The outline of lines 552-570: the silhouette's border pixels (a content
\* pixel with a 4-neighbour that is not content, or on the canvas edge).
OnContour(in, fh, fw, y, x) ==
    /\ FullMask(in, y, x)
    /\ \/ y = 0 \/ x = 0 \/ y = fh - 1 \/ x = fw - 1
       \/ ~FullMask(in, y - 1, x) \/ ~FullMask(in, y + 1, x)
       \/ ~FullMask(in, y, x - 1) \/ ~FullMask(in, y, x + 1)

\* The alpha value of lines 574-582.  The colour-keyed variant makes a pixel
\* opaque when its colour differs from the background instead.
AlphaAt_ColourKeyed(in, y, x) ==
    IF PlacedRgb(in, y, x) # SwapRB(in.bg_color_bgr) THEN Opaque ELSE in.bg_alpha

\* The stroked variant lets the outline drawn on the image reach the alpha
\* channel as well.
AlphaAt_Stroked(in, y, x) ==
    IF in.stroke_enabled
       /\ OnContour(in, Max(in.cover_warped.h, in.spine_warped.h),
                    in.cover_warped.w + in.spine_warped.w, y, x)
    THEN GrayStroke[1]
    ELSE IF FullMask(in, y, x) THEN Opaque ELSE in.bg_alpha

AlphaAt(in, y, x) == IF FullMask(in, y, x) THEN Opaque ELSE in.bg_alpha

ComposeCanvas(in) ==
    LET final_width == in.cover_warped.w + in.spine_warped.w
        final_height == Max(in.cover_warped.h, in.spine_warped.h)
        rgb(y, x) == IF in.stroke_enabled /\ OnContour(in, final_height, final_width, y, x)
                     THEN GrayStroke ELSE PlacedRgb(in, y, x)
    IN IF in.bg_alpha < Opaque
       THEN [h |-> final_height, w |-> final_width, ch |-> 4,
             px |-> [y \in 0..final_height-1 |-> [x \in 0..final_width-1 |->
                        Append(rgb(y, x), AlphaAt(in, y, x))]]]
       ELSE [h |-> final_height, w |-> final_width, ch |-> 3,
             px |-> [y \in 0..final_height-1 |-> [x \in 0..final_width-1 |-> rgb(y, x)]]]

BgAlphas == {0, 127, 255}

CInit ==
    /\ c_pc = "input"
    /\ c_out = NoImage
    /\ \E h \in 1..MaxPanelH, cw \in 1..MaxCoverW, sw \in 1..MaxSpineW,
          ct, cb, st, sb, stroke \in BOOLEAN,
          bg \in BgColours, ccol, scol \in {"content", "bg"}, a \in BgAlphas :
         LET bgr == SwapRB(bg)
             cmask == PanelMask(h, cw, cw - 1, ct, cb)
             smask == PanelMask(h, sw, 0, st, sb)
             col(c) == IF c = "bg" THEN bgr ELSE SwapRB(ContentColour)
         IN c_in = [cover_warped |-> WarpedPanel(h, cw, cmask, col(ccol), bgr),
                    cover_mask |-> cmask,
                    spine_warped |-> WarpedPanel(h, sw, smask, col(scol), bgr),
                    spine_mask |-> smask,
                    bg_color_bgr |-> bgr,
                    bg_alpha |-> a,
                    stroke_enabled |-> stroke]

Compose ==
    /\ UNCHANGED <<pvars, tvars, gvars, kvars, qvars, uvars, xvars>>
    /\ c_pc = "input"
    /\ c_out' = ComposeCanvas(c_in)
    /\ c_pc' = "done"
    /\ UNCHANGED c_in

CIdle == c_pc = "idle" /\ c_in = NoImage /\ c_out = NoImage

\* ------------------------------------------- _post_process_image, 589-640
\* border_percentage as a fraction <<numerator, denominator>>: 0, 0.1, 0.15, 0.2.
BorderPercentages == {<<0, 1>>, <<1, 10>>, <<3, 20>>, <<1, 5>>}

\* The border rounded to the nearest pixel instead of truncated.
ActualBorderWidth_Rounded(final_size, bp) ==
    (2 * final_size * bp[1] + bp[2]) \div (2 * bp[2])

\* int(final_size * border_percentage), line 597.
ActualBorderWidth(final_size, bp) == (final_size * bp[1]) \div bp[2]

\* final_size * (1 - 2 * border_percentage) rounded down, without the
\* truncation of the border to whole pixels.
InnerSize_Untruncated(final_size, bp) ==
    (final_size * (bp[2] - 2 * bp[1])) \div bp[2]

\* inner_size, line 600.
InnerSize(final_size, bp) == final_size - 2 * ActualBorderWidth(final_size, bp)

\* The operand triples <<side, inner_size, longer>>, all at most 20, for which
\* the double product side * (inner_size / longer) lies just below the exact
\* integer quotient, so that int() gives one less (e.g. int(11 * (15 / 11)) = 14).
FloatShort == {<<11, 15, 11>>, <<13, 15, 13>>}

\* int(side * scale_ratio) with scale_ratio = inner_size / max(width, height),
\* lines 603-605, in IEEE double arithmetic (operands at most 20).
ScaledSide(side, inner_size, longer) ==
    (side * inner_size) \div longer
      - (IF <<side, inner_size, longer>> \in FloatShort THEN 1 ELSE 0)

\* cv2.resize, INTER_LINEAR on 8-bit channels: for destination index d the
\* two source taps and the weight of the second, in 1/2048ths.
ResizeTap(d, sn, dn) ==
    LET num == (2 * d + 1) * sn - dn
        den == 2 * dn
        s0 == num \div den
    IN IF s0 < 0 THEN [i0 |-> 0, i1 |-> 0, a1 |-> 0]
       ELSE IF s0 >= sn - 1 THEN [i0 |-> sn - 1, i1 |-> sn - 1, a1 |-> 0]
       ELSE [i0 |-> s0, i1 |-> s0 + 1,
             a1 |-> (4096 * (num - s0 * den) + den) \div (2 * den)]

\* One channel value: the horizontal pass, then the vertical pass with
\* OpenCV's fixed-point rounding.
ResizeValue(px, c, ty, tx) ==
    LET row(i) == px[i][tx.i0][c] * (2048 - tx.a1) + px[i][tx.i1][c] * tx.a1
    IN (((2048 - ty.a1) * (row(ty.i0) \div 16)) \div 65536
        + (ty.a1 * (row(ty.i1) \div 16)) \div 65536 + 2) \div 4

\* cv2.resize(img, (new_width, new_height)); equal sizes are a plain copy.
Resize(img, new_width, new_height) ==
    IF new_width = img.w /\ new_height = img.h THEN img
    ELSE LET tx == [x \in 0..new_width-1 |-> ResizeTap(x, img.w, new_width)]
             ty == [y \in 0..new_height-1 |-> ResizeTap(y, img.h, new_height)]
         IN [h |-> new_height, w |-> new_width, ch |-> img.ch,
             px |-> [y \in 0..new_height-1 |-> [x \in 0..new_width-1 |->
                       [c \in 1..img.ch |-> ResizeValue(img.px, c, ty[y], tx[x])]]]]

\* The colour the canvas is filled with, lines 623 and 632.  The variant
\* leaves the alpha of the border fully opaque.
CanvasFill_OpaqueBorder(has_alpha, bg_color_rgb, bg_alpha) ==
    IF has_alpha THEN Append(bg_color_rgb, Opaque) ELSE bg_color_rgb

CanvasFill(has_alpha, bg_color_rgb, bg_alpha) ==
    IF has_alpha THEN Append(bg_color_rgb, bg_alpha) ELSE bg_color_rgb

\* The whole of _post_process_image.  err: cv2.resize raised (empty target size).
PostProcessPixels(img_array, final_size, bp, bg_color_rgb, bg_alpha) ==
    LET longer == Max(img_array.w, img_array.h)
        inner_size == InnerSize(final_size, bp)
        new_height == ScaledSide(img_array.h, inner_size, longer)
        new_width == ScaledSide(img_array.w, inner_size, longer)
        y_offset == (final_size - new_height) \div 2
        x_offset == (final_size - new_width) \div 2
    IN IF new_height < 1 \/ new_width < 1
       THEN [err |-> TRUE, img |-> NoImage, new_width |-> new_width,
             new_height |-> new_height, x_offset |-> x_offset, y_offset |-> y_offset]
       ELSE LET resized == Resize(img_array, new_width, new_height)
                has_alpha == resized.ch = 4
                fill == CanvasFill(has_alpha, bg_color_rgb, bg_alpha)
            IN [err |-> FALSE,
                img |-> [h |-> final_size, w |-> final_size,
                         ch |-> IF has_alpha THEN 4 ELSE 3,
                         px |-> [y \in 0..final_size-1 |-> [x \in 0..final_size-1 |->
                            IF /\ y >= y_offset /\ y < y_offset + new_height
                               /\ x >= x_offset /\ x < x_offset + new_width
                            THEN resized.px[y - y_offset][x - x_offset]
                            ELSE fill]]],
                new_width |-> new_width, new_height |-> new_height,
                x_offset |-> x_offset, y_offset |-> y_offset]

\* A composed image handed to the post-processor: content and background
\* pixels in one of three layouts.
IsContent(pattern, y, x) ==
    CASE pattern = "full" -> TRUE
      [] pattern = "checker" -> (x + y) % 2 = 0
      [] OTHER -> FALSE

ComposedImage(h, w, ch, pattern, bg_rgb, bg_alpha) ==
    [h |-> h, w |-> w, ch |-> ch,
     px |-> [y \in 0..h-1 |-> [x \in 0..w-1 |->
        LET rgb == IF IsContent(pattern, y, x) THEN ContentColour ELSE bg_rgb
            a == IF IsContent(pattern, y, x) THEN Opaque ELSE bg_alpha
        IN IF ch = 4 THEN Append(rgb, a) ELSE rgb]]]

\* Image sizes and final sizes: all small ones, and one wide strip on a
\* canvas where the double arithmetic of ScaledSide falls short.
PostCases ==
    {<<h, w, f>> : h \in 1..MaxImg, w \in 1..MaxImg, f \in 1..MaxFinal}
        \cup {<<1, 11, 15>>}

NoResult == [err |-> FALSE, img |-> NoImage, new_width |-> 0, new_height |-> 0,
             x_offset |-> 0, y_offset |-> 0]

TInit ==
    /\ t_pc = "start"
    /\ t_out1 = NoResult
    /\ t_out2 = NoResult
    /\ \E hwf \in PostCases, chn \in {3, 4}, pattern \in {"full", "checker", "blank"},
          bp \in BorderPercentages, bg \in BgColours, a \in {127, 255} :
         t_in = [img_array |-> ComposedImage(hwf[1], hwf[2], chn, pattern, bg, a),
                 final_size |-> hwf[3],
                 border_percentage |-> bp,
                 bg_color |-> bg,
                 bg_alpha |-> a]

PostOnce ==
    /\ UNCHANGED <<pvars, cvars, gvars, kvars, qvars, uvars, xvars>>
    /\ t_pc = "start"
    /\ LET r == PostProcessPixels(t_in.img_array, t_in.final_size,
                                  t_in.border_percentage, t_in.bg_color, t_in.bg_alpha)
       IN /\ t_out1' = r
          /\ t_pc' = IF r.err THEN "error" ELSE "once"
    /\ UNCHANGED <<t_in, t_out2>>

PostAgain ==
    /\ UNCHANGED <<pvars, cvars, gvars, kvars, qvars, uvars, xvars>>
    /\ t_pc = "once"
    /\ LET r == PostProcessPixels(t_out1.img, t_in.final_size,
                                  t_in.border_percentage, t_in.bg_color, t_in.bg_alpha)
       IN /\ t_out2' = r
          /\ t_pc' = IF r.err THEN "error" ELSE "twice"
    /\ UNCHANGED <<t_in, t_out1>>

TIdle == t_pc = "idle" /\ t_in = NoImage /\ t_out1 = NoResult /\ t_out2 = NoResult

PIdle ==
    /\ pc = "idle" /\ imgs = <<>> /\ lists = <<>> /\ nextId = None
    /\ spine_images = None /\ cover_img = None
    /\ book_type = "softcover" /\ spine_shadow_mode = "none"
    /\ assetOk = TRUE /\ overlayFailAt = 0 /\ fault = "none"
    /\ processed_spine_images = None /\ spine_img = None
    /\ hardcover_spines = None /\ result_image = None
    /\ log = <<>> /\ assetReads = 0 /\ overlayCalls = 0 /\ curlCalls = 0
    /\ shadowRaised = FALSE

\* ============================================================== geometry
\* The dimensions _generate_3d_cover computes.  A float is modelled as an
\* exact fraction <<numerator, denominator>> (denominator > 0, lowest terms);
\* the sines and cosines come from angles whose values are rational.  A shape
\* is [h, w], the first two entries of an array's .shape.
Abs(a) == IF a < 0 THEN -a ELSE a

RECURSIVE GCD(_, _)
GCD(a, b) == IF b = 0 THEN a ELSE GCD(b, a % b)

\* The operators below evaluate each argument once: {e : x \in {a}} binds x
\* to the value of a.
RatOf(n, d) ==
    LET g == GCD(Abs(n), Abs(d))
        s == IF d < 0 THEN -1 ELSE 1
    IN IF n = 0 THEN <<0, 1>> ELSE <<(s * n) \div g, (s * d) \div g>>

RInt(k) == <<k, 1>>

MulOf(a, b) ==
    LET g1 == GCD(Abs(a[1]), b[2])
        g2 == GCD(Abs(b[1]), a[2])
    IN IF a[1] = 0 \/ b[1] = 0 THEN <<0, 1>>
       ELSE <<(a[1] \div g1) * (b[1] \div g2), (a[2] \div g2) * (b[2] \div g1)>>

InvOf(b) == IF b[1] < 0 THEN <<-b[2], -b[1]>> ELSE <<b[2], b[1]>>

AddOf(a, b) ==
    LET g == GCD(a[2], b[2])
    IN RatOf(a[1] * (b[2] \div g) + b[1] * (a[2] \div g), (a[2] \div g) * b[2])

RMul(a, b) == CHOOSE r \in {MulOf(x, y) : x \in {a}, y \in {b}} : TRUE

\* a / b for b # 0
RDiv(a, b) == CHOOSE r \in {MulOf(x, InvOf(y)) : x \in {a}, y \in {b}} : TRUE

RAdd(a, b) == CHOOSE r \in {AddOf(x, y) : x \in {a}, y \in {b}} : TRUE

RSub(a, b) == CHOOSE r \in {AddOf(x, <<-y[1], y[2]>>) : x \in {a}, y \in {b}} : TRUE

\* Python's int(): truncation towards zero
Trunc(a) ==
    CHOOSE r \in {IF x[1] >= 0 THEN x[1] \div x[2] ELSE -((-x[1]) \div x[2]) : x \in {a}} :
        TRUE

\* self.display_ppmm = 96 / 25.4
display_ppmm == <<480, 127>>

\* np.sin and np.cos of the angles 0, 36.87, 53.13, 90 and 126.87 degrees
Angles == << [sin |-> <<0, 1>>, cos |-> <<1, 1>>],
             [sin |-> <<3, 5>>, cos |-> <<4, 5>>],
             [sin |-> <<4, 5>>, cos |-> <<3, 5>>],
             [sin |-> <<1, 1>>, cos |-> <<0, 1>>],
             [sin |-> <<4, 5>>, cos |-> <<-3, 5>>] >>

Shape(h, w) == [h |-> h, w |-> w]
NoShape == Shape(0, 0)
IsEmpty(shape) == shape.h = 0 \/ shape.w = 0

\* a[start:stop] on an axis of length n: the index range <<lo, hi>> selected
PySlice(start, stop, n) ==
    LET clip(i) == IF i < 0 THEN Max(n + i, 0) ELSE IF i > n THEN n ELSE i
        lo == clip(start)
        hi == clip(stop)
    IN <<lo, Max(lo, hi)>>

\* numpy broadcasting of a source of shape src into a region of shape dst
Assignable(src, dst) ==
    /\ src.h = dst.h \/ src.h = 1
    /\ src.w = dst.w \/ src.w = 1

\* cv2.warpPerspective(src, M, (w, h)): an empty dsize means the source's size
WarpShape(src, w, h) == IF w <= 0 \/ h <= 0 THEN src ELSE Shape(h, w)

\* _calculate_transform_params
CalculateTransformParams_ComplementReversed(cover, cover_width, angle, spine_angle, camera_height_ratio, book_distance) ==
    LET cover_height == RMul(RDiv(RMul(display_ppmm, cover_width), RInt(cover.w)),
                             RInt(cover.h))
        camera_height == RMul(cover_height, camera_height_ratio)
        camera_height_complement == RSub(camera_height, cover_height)
        reach == RMul(cover_width, angle.sin)
        denom == RAdd(book_distance, reach)
    IN [cover_height |-> cover_height,
        camera_height |-> camera_height,
        camera_height_complement |-> camera_height_complement,
        angle |-> angle,
        spine_angle |-> spine_angle,
        display_cover_width |-> RMul(RMul(display_ppmm, cover_width), angle.cos),
        offset_y_bottom |-> RDiv(RMul(camera_height, reach), denom),
        offset_y_top |-> RDiv(RMul(camera_height_complement, reach), denom)]

CalculateTransformParams(cover, cover_width, angle, spine_angle, camera_height_ratio, book_distance) ==
    LET cover_height == RMul(RDiv(RMul(display_ppmm, cover_width), RInt(cover.w)),
                             RInt(cover.h))
        camera_height == RMul(cover_height, camera_height_ratio)
        camera_height_complement == RSub(cover_height, camera_height)
        reach == RMul(cover_width, angle.sin)
        denom == RAdd(book_distance, reach)
    IN [cover_height |-> cover_height,
        camera_height |-> camera_height,
        camera_height_complement |-> camera_height_complement,
        angle |-> angle,
        spine_angle |-> spine_angle,
        display_cover_width |-> RMul(RMul(display_ppmm, cover_width), angle.cos),
        offset_y_bottom |-> RDiv(RMul(camera_height, reach), denom),
        offset_y_top |-> RDiv(RMul(camera_height_complement, reach), denom)]

\* _transform_cover: the shapes of cover_warped and cover_mask
TransformCover(cover, display_cover_width, cover_height) ==
    LET w == Trunc(display_cover_width)
        h == Trunc(cover_height)
    IN [err |-> IF IsEmpty(cover) THEN "cv2.error" ELSE "none",
        req |-> Shape(h, w),
        image |-> WarpShape(cover, w, h),
        mask |-> WarpShape(cover, w, h)]

\* pivot_width / spine_width in mm and the two vertical offsets of a spine
SpineWidthMm(spine, cover_height) ==
    RMul(RDiv(RDiv(cover_height, display_ppmm), RInt(spine.h)), RInt(spine.w))

SpineOffset(camera_part, width_mm, spine_angle, book_distance) ==
    LET depth == RMul(width_mm, spine_angle.cos)
    IN RDiv(RMul(camera_part, depth), RAdd(book_distance, depth))

\* _transform_spine (softcover): shapes, display_spine_width and spine_height
TransformSpineShapes(spine, p, book_distance) ==
    LET spine_height == p.cover_height
        spine_width == SpineWidthMm(spine, spine_height)
        display_spine_width == RMul(RMul(spine_width, display_ppmm), p.spine_angle.sin)
        w == Trunc(display_spine_width)
        h == Trunc(spine_height)
    IN [err |-> IF IsEmpty(spine) THEN "cv2.error" ELSE "none",
        req |-> <<Shape(h, w)>>,
        image |-> WarpShape(spine, w, h),
        mask |-> WarpShape(spine, w, h),
        display_spine_width |-> display_spine_width,
        spine_height |-> spine_height,
        segments |-> <<>>,
        placements |-> <<>>]

Min(a, b) == IF a <= b THEN a ELSE b

\* _process_spine_pixels_column: processed_image is zeros_like(spine_warped),
\* processed_mask is (h, int(display_spine_width)); the column loop runs over
\* int(display_spine_width) columns of the image.
ProcessSpinePixelsColumn_RoundedMask(spine_warped, display_spine_width) ==
    [err |-> "none",
     image |-> spine_warped,
     mask |-> Shape(spine_warped.h, Trunc(RAdd(display_spine_width, <<1, 2>>)))]

ProcessSpinePixelsColumn(spine_warped, display_spine_width) ==
    [err |-> IF Trunc(display_spine_width) > spine_warped.w
             THEN "IndexError" ELSE "none",
     image |-> spine_warped,
     mask |-> Shape(spine_warped.h, Trunc(display_spine_width))]

\* line 209: the visible height left for the next (further) segment
NextSpineHeight_NoShrink(display_height, top, bottom) == RInt(display_height)

NextSpineHeight_TopOnly(display_height, top, bottom) == RSub(RInt(display_height), top)

NextSpineHeight(display_height, top, bottom) ==
    RSub(RSub(RInt(display_height), top), bottom)

\* One iteration of the loop of lines 168-214.
HardcoverSegment(spine, last_spine_height, p, book_distance) ==
    LET pivot_height == p.cover_height
        pivot_width == SpineWidthMm(spine, pivot_height)
        pivot_width_px == RMul(RMul(pivot_width, display_ppmm), p.spine_angle.sin)
        bottom == SpineOffset(p.camera_height, pivot_width, p.spine_angle, book_distance)
        top == SpineOffset(p.camera_height_complement, pivot_width, p.spine_angle,
                           book_distance)
        resized == Shape(Trunc(pivot_height), Trunc(pivot_width_px))
        curl == ProcessSpinePixelsColumn(resized, pivot_width_px)
        display_height == Trunc(last_spine_height)
        display_width == Trunc(RDiv(RMul(pivot_width_px, RInt(display_height)),
                                    pivot_height))
    IN [err |-> IF resized.w <= 0 \/ resized.h <= 0 THEN "cv2.error"
                ELSE IF curl.err # "none" THEN curl.err
                ELSE IF display_width <= 0 \/ display_height <= 0 THEN "cv2.error"
                ELSE "none",
        pivot_width_px |-> pivot_width_px,
        resized |-> resized,
        original_mask |-> resized,
        curled_image |-> curl.image,
        curled_mask |-> curl.mask,
        display_width |-> display_width,
        display_height |-> display_height,
        image |-> Shape(display_height, display_width),
        mask |-> Shape(display_height, display_width),
        top |-> top,
        bottom |-> bottom,
        last_spine_height |-> NextSpineHeight(display_height, top, bottom)]

\* The loop of lines 168-214: stops at the first segment that raises.
RECURSIVE HardcoverLoop(_, _, _, _, _, _)
HardcoverLoop(spine_imgs, i, last_spine_height, acc, p, book_distance) ==
    IF i > Len(spine_imgs) THEN [err |-> "none", segments |-> acc]
    ELSE CHOOSE r \in
           {IF seg.err # "none" THEN [err |-> seg.err, segments |-> Append(acc, seg)]
            ELSE HardcoverLoop(spine_imgs, i + 1, seg.last_spine_height,
                               Append(acc, seg), p, book_distance) :
            seg \in {HardcoverSegment(spine_imgs[i], last_spine_height, p, book_distance)}} :
           TRUE

RECURSIVE SumWidths(_)
SumWidths(segments) ==
    IF segments = <<>> THEN 0
    ELSE Head(segments).display_width + SumWidths(Tail(segments))

\* line 234: the left edge of the segment placed next
PlaceLeftOf_NoShift(current_x, width, total) == current_x

PlaceLeftOf(current_x, width, total) == current_x - width

\* One iteration of the placement loop of lines 230-246: the segment's
\* position in merged arrays of shape merged, and whether the write raises.
Placement(seg, i, next_x, merged, p) ==
    LET spine == seg.image
        spine_mask == seg.mask
        \* (cover_height - spine.shape[0]) * camera_height_complement / cover_height,
        \* the exact product taken as a * (b / c) to keep the numerators small
        y_offset == Trunc(RMul(RSub(p.cover_height, RInt(spine.h)),
                               RDiv(p.camera_height_complement, p.cover_height)))
        actual_width == spine.w
        start_x == Max(0, next_x)
        end_x == Min(next_x + actual_width, merged.w)
        rows == PySlice(y_offset, y_offset + spine.h, merged.h)
        mrows == PySlice(y_offset, y_offset + spine_mask.h, merged.h)
        placed == end_x > start_x
        src == Shape(spine.h, Min(end_x - start_x, spine.w))
        msrc == Shape(spine_mask.h, Min(end_x - start_x, spine_mask.w))
        dst == Shape(rows[2] - rows[1], end_x - start_x)
        mdst == Shape(mrows[2] - mrows[1], end_x - start_x)
    IN [index |-> i, placed |-> placed, y_offset |-> y_offset,
        start_x |-> start_x, end_x |-> end_x, copied |-> src,
        err |-> IF placed /\ ~(Assignable(src, dst) /\ Assignable(msrc, mdst))
                THEN "ValueError" ELSE "none"]

\* The placement loop of lines 229-246.
RECURSIVE StitchLoop(_, _, _, _, _, _)
StitchLoop(segments, i, current_x, merged, p, acc) ==
    IF i > Len(segments) THEN [err |-> "none", placements |-> acc]
    ELSE CHOOSE r \in
           {IF place.err # "none"
            THEN [err |-> place.err, placements |-> Append(acc, place)]
            ELSE StitchLoop(segments, i + 1, place.next_x, merged, p, Append(acc, place)) :
            place \in {Placement(segments[i], i, nx, merged, p) @@ [next_x |-> nx] :
                       nx \in {PlaceLeftOf(current_x, segments[i].display_width,
                                           merged.w)}}} :
           TRUE

\* _transform_spine_hardcover: shapes, total display width and spine_height
StitchedSpine(loop, p) ==
    LET total_display_spine_width == SumWidths(loop.segments)
        merged == Shape(Trunc(p.cover_height), total_display_spine_width)
        reqs == [i \in 1..Len(loop.segments) |-> loop.segments[i].resized]
    IN IF loop.err # "none"
       THEN [err |-> loop.err, req |-> reqs, image |-> NoShape, mask |-> NoShape,
             display_spine_width |-> RInt(0), spine_height |-> p.cover_height,
             segments |-> loop.segments, placements |-> <<>>]
       ELSE CHOOSE r \in
              {[err |-> stitch.err, req |-> Append(reqs, merged),
                image |-> merged, mask |-> merged,
                display_spine_width |-> RInt(total_display_spine_width),
                spine_height |-> p.cover_height,
                segments |-> loop.segments, placements |-> stitch.placements] :
               stitch \in {StitchLoop(loop.segments, 1, total_display_spine_width,
                                      merged, p, <<>>)}} : TRUE

TransformSpineHardcoverShapes(spine_imgs, p, book_distance) ==
    CHOOSE r \in
      {StitchedSpine(loop, p) :
       loop \in {HardcoverLoop(spine_imgs, 1, p.cover_height, <<>>, p, book_distance)}} :
      TRUE

\* line 539: the canvas width
FinalWidth_TruncatedSum(display_cover_width, display_spine_width) ==
    Trunc(RAdd(display_cover_width, display_spine_width))

FinalWidth(display_cover_width, display_spine_width) ==
    Trunc(display_cover_width) + Trunc(display_spine_width)

\* Lines 538-582: the canvas, the two placement regions and the writes into
\* them.  uses_masks: the stroke or the alpha branch indexes a region by a mask.
CanvasShapes(p, cover, spine, uses_masks) ==
    LET ch == Trunc(p.cover_height)
        dsw == Trunc(spine.display_spine_width)
        sh == Trunc(spine.spine_height)
        final_width == FinalWidth(p.display_cover_width, spine.display_spine_width)
        final_height == Max(ch, sh)
        crows == PySlice(0, ch, final_height)
        ccols == PySlice(dsw, final_width, final_width)
        srows == PySlice(0, sh, final_height)
        scols == PySlice(0, dsw, final_width)
        cover_region == Shape(crows[2] - crows[1], ccols[2] - ccols[1])
        spine_region == Shape(srows[2] - srows[1], scols[2] - scols[1])
    IN [err |-> IF final_width < 0 \/ final_height < 0 THEN "ValueError"
                ELSE IF ~Assignable(cover.image, cover_region) THEN "ValueError"
                ELSE IF ~Assignable(spine.image, spine_region) THEN "ValueError"
                ELSE IF uses_masks /\ (cover.mask # cover_region \/ spine.mask # spine_region)
                     THEN "IndexError"
                ELSE "none",
        final_width |-> final_width,
        final_height |-> final_height,
        cover_rows |-> crows, cover_cols |-> ccols,
        spine_rows |-> srows, spine_cols |-> scols,
        cover_region |-> cover_region,
        spine_region |-> spine_region]

\* _merge_spines, lines 302-315: the shape of the merged spine image
RECURSIVE MergedWidth(_, _)
MergedWidth(shapes, max_height) ==
    IF shapes = <<>> THEN 0
    ELSE (Head(shapes).w * max_height) \div Head(shapes).h
         + MergedWidth(Tail(shapes), max_height)

RECURSIVE MaxHeight(_)
MaxHeight(shapes) ==
    IF shapes = <<>> THEN 0 ELSE Max(Head(shapes).h, MaxHeight(Tail(shapes)))

MergedShape(shapes) == Shape(MaxHeight(shapes), MergedWidth(shapes, MaxHeight(shapes)))

MaxSegments == 3

CoverShapes == {Shape(30, 20), Shape(20, 20), Shape(0, 20), Shape(30, 0)}
SpineShapes == {Shape(30, 8), Shape(24, 3)}
CoverWidths == {<<127, 1>>, <<120, 1>>}
BookDistances == {<<800, 1>>, <<40, 1>>}
CameraHeightRatios == {<<0, 1>>, <<1, 2>>, <<1, 1>>}

SpineLists == UNION {[1..n -> SpineShapes] : n \in 1..MaxSegments}

NoGeometry == [err |-> "none", allocs |-> <<>>]

GInit ==
    /\ g_pc = "convert"
    /\ g_out = NoGeometry
    /\ \E cover \in CoverShapes, spines \in SpineLists, cw \in CoverWidths,
          d \in BookDistances, r \in CameraHeightRatios,
          a \in 1..Len(Angles), sa \in 1..Len(Angles),
          bt \in BookTypes, um \in BOOLEAN :
         /\ a <= sa
         /\ g_in = [cover |-> cover,
                    spine |-> MergedShape(spines),
                    hardcover_spines |-> IF bt = "hardcover" THEN spines ELSE <<>>,
                    cover_width |-> cw,
                    book_distance |-> d,
                    camera_height_ratio |-> r,
                    angle |-> Angles[a],
                    spine_angle |-> Angles[sa],
                    book_type |-> bt,
                    uses_masks |-> um]

\* lines 494-507: cv2.cvtColor raises on an empty array; then the parameters
GConvert ==
    /\ UNCHANGED <<pvars, cvars, tvars, kvars, qvars, uvars, xvars>>
    /\ g_pc = "convert"
    /\ UNCHANGED g_in
    /\ IF IsEmpty(g_in.cover) \/ IsEmpty(g_in.spine)
       THEN /\ g_pc' = "failed"
            /\ g_out' = [g_out EXCEPT !.err = "cv2.error"]
       ELSE /\ g_pc' = "cover"
            /\ g_out' = g_out @@ [params |-> CalculateTransformParams(
                                      g_in.cover, g_in.cover_width, g_in.angle,
                                      g_in.spine_angle, g_in.camera_height_ratio,
                                      g_in.book_distance)]

\* lines 510-514
GTransformCover ==
    /\ UNCHANGED <<pvars, cvars, tvars, kvars, qvars, uvars, xvars>>
    /\ g_pc = "cover"
    /\ UNCHANGED g_in
    /\ \E c \in {TransformCover(g_in.cover, g_out.params.display_cover_width,
                                 g_out.params.cover_height)} :
          IF c.err # "none"
          THEN /\ g_pc' = "failed"
               /\ g_out' = [g_out EXCEPT !.err = c.err]
          ELSE /\ g_pc' = "spine"
               /\ g_out' = [g_out EXCEPT !.allocs = @ \o <<c.image, c.mask>>]
                           @@ [cover |-> c]

\* lines 516-536; allocs gains the arrays the transform has created
GTransformSpine ==
    /\ UNCHANGED <<pvars, cvars, tvars, kvars, qvars, uvars, xvars>>
    /\ g_pc = "spine"
    /\ UNCHANGED g_in
    /\ \E s \in {IF UsesHardcoverTransform(g_in.book_type)
                  THEN TransformSpineHardcoverShapes(g_in.hardcover_spines, g_out.params,
                                                     g_in.book_distance)
                  ELSE TransformSpineShapes(g_in.spine, g_out.params,
                                            g_in.book_distance)} :
       LET done == SelectSeq(s.segments, LAMBDA seg : seg.err = "none")
           made == [i \in 1..Len(done) |-> done[i].image]
           merged == IF s.image = NoShape THEN <<>> ELSE <<s.image, s.mask>>
       IN /\ g_pc' = IF s.err # "none" THEN "failed" ELSE "canvas"
          /\ g_out' = [g_out EXCEPT !.err = s.err, !.allocs = @ \o made \o merged]
                      @@ [spine |-> s]

\* lines 538-587
GCanvas ==
    /\ UNCHANGED <<pvars, cvars, tvars, kvars, qvars, uvars, xvars>>
    /\ g_pc = "canvas"
    /\ UNCHANGED g_in
    /\ \E c \in {CanvasShapes(g_out.params, g_out.cover, g_out.spine,
                               g_in.uses_masks)} :
          /\ g_pc' = IF c.err # "none" THEN "failed" ELSE "done"
          /\ g_out' = [g_out EXCEPT !.err = c.err,
                                    !.allocs = IF c.final_width < 0 \/ c.final_height < 0
                                               THEN @
                                               ELSE Append(@, Shape(c.final_height,
                                                                    c.final_width))]
                      @@ [canvas |-> c]

GIdle == g_pc = "idle" /\ g_in = NoShape /\ g_out = NoGeometry

\* ========================================================= command line
\* main() of cli.py and of pdf_to_3dcover.py: the namespace of argparse, the
\* merge of the --config file, the validation, the call of render_3d_cover
\* and the save of the result.  A float (--camera-height, --border) is an
\* exact fraction as in the geometry section.

\* a <= b for two fractions
RLeq(a, b) == a[1] * b[2] <= b[1] * a[2]

Tools == {"cli", "pdf"}

\* param_mapping: <<cli_param, config_key>> in the order of the dictionary
param_mapping(tool) ==
    LET common == << <<"perspective", "perspective_angle">>,
                     <<"distance", "book_distance">>,
                     <<"width", "cover_width">>,
                     <<"bg_color", "bg_color">>,
                     <<"bg_alpha", "bg_alpha">>,
                     <<"spine_spread", "spine_spread_angle">>,
                     <<"camera_height", "camera_height_ratio">>,
                     <<"final_size", "final_size">>,
                     <<"border", "border_percentage">>,
                     <<"book_type", "book_type">>,
                     <<"shadow_mode", "spine_shadow_mode">>,
                     <<"stroke_enabled", "stroke_enabled">> >>
    IN IF tool = "pdf" THEN Append(common, <<"center_skip", "center_skip_width">>)
       ELSE common

CliParams(tool) == {param_mapping(tool)[i][1] : i \in DOMAIN param_mapping(tool)}

ConfigKeys == {param_mapping("pdf")[i][2] : i \in DOMAIN param_mapping("pdf")}

\* parser.get_default(cli_param): the defaults of add_argument
get_default ==
    [perspective |-> 35, distance |-> 800, width |-> 187, bg_color |-> "#ffffff",
     bg_alpha |-> 100, spine_spread |-> 0, camera_height |-> <<1, 2>>,
     final_size |-> 1200, border |-> <<1, 10>>, book_type |-> "softcover",
     shadow_mode |-> "linear", stroke_enabled |-> FALSE, center_skip |-> 5]

\* values a user may type for an option, all different from its default
Typed ==
    [perspective |-> {60, 120}, distance |-> {1000, 0}, width |-> {210, -5},
     bg_color |-> {"#000000"}, bg_alpha |-> {50, 101}, spine_spread |-> {30, 80},
     camera_height |-> {<<3, 4>>, <<3, 2>>}, final_size |-> {800, 0},
     border |-> {<<1, 5>>, <<3, 10>>}, book_type |-> {"hardcover"},
     shadow_mode |-> {"none"}, stroke_enabled |-> {TRUE}, center_skip |-> {10, -1}]

\* the value a configuration file holds under a key
Configured ==
    [perspective_angle |-> 45, book_distance |-> 600, cover_width |-> 127,
     bg_color |-> "#cccccc", bg_alpha |-> 80, spine_spread_angle |-> 10,
     camera_height_ratio |-> <<1, 4>>, final_size |-> 1000,
     border_percentage |-> <<1, 20>>, book_type |-> "hardcover",
     spine_shadow_mode |-> "reflective", stroke_enabled |-> TRUE,
     center_skip_width |-> 8]

MaxGiven == 1

\* the namespaces in which at most n more options are typed than in nss
RECURSIVE Typings(_, _, _)
Typings(tool, nss, n) ==
    IF n = 0 THEN nss
    ELSE Typings(tool,
                 nss \cup UNION { {[ns EXCEPT ![p] = v] : v \in Typed[p]} :
                                  ns \in nss, p \in CliParams(tool) },
                 n - 1)

\* the namespaces parse_args() returns when at most MaxGiven options are typed
Namespaces(tool) ==
    Typings(tool, {[p \in CliParams(tool) |-> get_default[p]]}, MaxGiven)

\* --config: not given, a file that does not exist, a file json.load()
\* rejects, or a dictionary with the keys config.keys, each holding
\* Configured[key]; the dictionaries are those with at most one key and
\* those that lack at most one key
NoConfig == [file |-> "none", keys |-> {}]

ConfigFiles ==
    {NoConfig, [file |-> "missing", keys |-> {}], [file |-> "invalid", keys |-> {}]}
    \cup {[file |-> "ok", keys |-> K] :
            K \in {K \in SUBSET ConfigKeys :
                     Cardinality(K) <= 1 \/ Cardinality(ConfigKeys \ K) <= 1}}

\* the condition under which the loop assigns config_data[config_key]:
\* cli.py   `config_key in config_data and getattr(args, cli_param) is None
\*           or getattr(args, cli_param) == parser.get_default(cli_param)`
\* pdf_to_3dcover.py
\*          `config_key in config_data and
\*           getattr(args, cli_param) == parser.get_default(cli_param)`
\* No option of param_mapping is ever None: each has a default.
TakesConfig_ConfigWins(tool, in_config, value, default) == in_config

TakesConfig(tool, in_config, value, default) ==
    IF tool = "cli" THEN (in_config /\ FALSE) \/ value = default
    ELSE in_config /\ value = default

\* the loop over param_mapping.items() from entry i on; config_data[config_key]
\* raises KeyError for a key the file does not have
RECURSIVE MergeConfig(_, _, _, _)
MergeConfig(tool, args, keys, i) ==
    IF i > Len(param_mapping(tool)) THEN [err |-> "none", args |-> args]
    ELSE LET cli_param == param_mapping(tool)[i][1]
             config_key == param_mapping(tool)[i][2]
         IN IF TakesConfig(tool, config_key \in keys, args[cli_param],
                           get_default[cli_param])
            THEN IF config_key \in keys
                 THEN MergeConfig(tool,
                                  [args EXCEPT ![cli_param] = Configured[config_key]],
                                  keys, i + 1)
                 ELSE [err |-> "KeyError", args |-> args]
            ELSE MergeConfig(tool, args, keys, i + 1)

\* `if args.config:` ... the whole block up to the except clauses, each of
\* which ends in parser.error
ApplyConfig(tool, args, config) ==
    IF config.file = "none" THEN [err |-> "none", args |-> args]
    ELSE IF config.file = "missing" THEN [err |-> "missing", args |-> args]
    ELSE IF config.file = "invalid" THEN [err |-> "JSONDecodeError", args |-> args]
    ELSE MergeConfig(tool, args, config.keys, 1)

\* the checks between the config block and the try block; TRUE when one of
\* them calls parser.error
Rejects(tool, args, inputs_exist) ==
    \/ tool = "pdf" /\ (~inputs_exist \/ args.center_skip < 0)
    \/ ~(0 <= args.bg_alpha /\ args.bg_alpha <= 100)
    \/ ~(RLeq(RInt(0), args.camera_height) /\ RLeq(args.camera_height, RInt(1)))
    \/ ~(RLeq(RInt(0), args.border) /\ RLeq(args.border, <<1, 5>>))
    \/ tool = "cli" /\ ~inputs_exist

\* the keyword arguments of renderer.render_3d_cover(...)
NoCall == [called |-> FALSE]

RenderCall(args) ==
    [called |-> TRUE,
     perspective_angle |-> args.perspective,
     book_distance |-> args.distance,
     cover_width |-> args.width,
     bg_color |-> args.bg_color,
     bg_alpha |-> Trunc(RatOf(args.bg_alpha * 255, 100)),
     spine_spread_angle |-> args.spine_spread,
     camera_height_ratio |-> args.camera_height,
     final_size |-> args.final_size,
     border_percentage |-> args.border,
     book_type |-> args.book_type,
     spine_shadow_mode |-> args.shadow_mode,
     stroke_enabled |-> args.stroke_enabled]

\* where the try block goes after render_3d_cover: on to the save, or into
\* the except clause and out
AfterRender_SaveAnyway(outcome) == "save"

AfterRender(outcome) == IF outcome = "ok" THEN "save" ELSE "exited"

KInit ==
    /\ k_pc = "config"
    /\ k_tool \in Tools
    /\ k_cmdline \in Namespaces(k_tool)
    /\ k_config \in ConfigFiles
    /\ k_args = k_cmdline
    /\ k_call = NoCall
    /\ k_render = "none"
    /\ k_raised = "none"
    /\ k_output \in {"absent", "old"}
    /\ k_writes = 0
    /\ k_exit = "running"

\* cli.py 41-77, pdf_to_3dcover.py 57-94
KApplyConfig ==
    /\ k_pc = "config"
    /\ \E m \in {ApplyConfig(k_tool, k_args, k_config)} :
        /\ k_args' = m.args
        /\ k_pc' = IF m.err = "none" THEN "validate" ELSE "exited"
        /\ k_exit' = IF m.err = "none" THEN "running" ELSE "2"
    /\ UNCHANGED <<k_tool, k_cmdline, k_config, k_call, k_render, k_raised,
                   k_output, k_writes>>
    /\ UNCHANGED <<pvars, cvars, tvars, gvars, qvars, uvars, xvars>>

\* cli.py 80-95, pdf_to_3dcover.py 97-111
KValidate ==
    /\ k_pc = "validate"
    /\ \E inputs_exist \in BOOLEAN :
        \E rejected \in {Rejects(k_tool, k_args, inputs_exist)} :
            /\ k_pc' = IF rejected THEN "exited" ELSE "load"
            /\ k_exit' = IF rejected THEN "2" ELSE "running"
    /\ UNCHANGED <<k_tool, k_cmdline, k_config, k_args, k_call, k_render, k_raised,
                   k_output, k_writes>>
    /\ UNCHANGED <<pvars, cvars, tvars, gvars, qvars, uvars, xvars>>

\* cli.py 99-100: Image.open; pdf_to_3dcover.py 115-140: the temporary
\* directory, cut_pdf ("nothing": it returned no paths, sys.exit(1)) and
\* Image.open
KLoad ==
    /\ k_pc = "load"
    /\ \E outcome \in {"ok", "raised"} \cup (IF k_tool = "pdf" THEN {"nothing"} ELSE {}) :
        /\ k_pc' = IF outcome = "ok" THEN "render" ELSE "exited"
        /\ k_exit' = IF outcome = "ok" THEN "running" ELSE "1"
        /\ k_raised' = IF outcome = "raised" THEN "load" ELSE "none"
    /\ UNCHANGED <<k_tool, k_cmdline, k_config, k_args, k_call, k_render,
                   k_output, k_writes>>
    /\ UNCHANGED <<pvars, cvars, tvars, gvars, qvars, uvars, xvars>>

\* cli.py 106-125, pdf_to_3dcover.py 146-166
KRender ==
    /\ k_pc = "render"
    /\ k_call' = RenderCall(k_args)
    /\ \E outcome \in {"ok", "raised"} :
        /\ k_render' = outcome
        /\ k_raised' = IF outcome = "raised" THEN "render" ELSE "none"
        /\ k_pc' = AfterRender(outcome)
        /\ k_exit' = IF AfterRender(outcome) = "exited" THEN "1" ELSE "running"
    /\ UNCHANGED <<k_tool, k_cmdline, k_config, k_args, k_output, k_writes>>
    /\ UNCHANGED <<pvars, cvars, tvars, gvars, qvars, uvars, xvars>>

\* cli.py 128-134, pdf_to_3dcover.py 169-184: Image.fromarray(...).save.
\* A save that raises may leave the file as it was or incomplete.
KSave ==
    /\ k_pc = "save"
    /\ \E outcome \in {"ok", "raised"} :
        /\ \/ outcome = "ok" /\ k_output' = "result"
           \/ outcome = "raised" /\ k_output' \in {k_output, "partial"}
        /\ k_writes' = IF k_output' = k_output THEN k_writes ELSE k_writes + 1
        /\ k_raised' = IF outcome = "raised" THEN "save" ELSE k_raised
        /\ k_exit' = IF outcome = "ok" THEN "0" ELSE "1"
    /\ k_pc' = "exited"
    /\ UNCHANGED <<k_tool, k_cmdline, k_config, k_args, k_call, k_render>>
    /\ UNCHANGED <<pvars, cvars, tvars, gvars, qvars, uvars, xvars>>

KIdle ==
    /\ k_pc = "idle"
    /\ k_tool = "none"
    /\ k_cmdline = <<>>
    /\ k_config = NoConfig
    /\ k_args = <<>>
    /\ k_call = NoCall
    /\ k_render = "none"
    /\ k_raised = "none"
    /\ k_output = "absent"
    /\ k_writes = 0
    /\ k_exit = "running"

\* ======================================================== curl processor
\* _process_spine_pixels_column on single pixels.  Rows are 0..h-1 and columns
\* 0..w-1; the source pixel at (y, x) has the value SourcePixel(w, y, x), so
\* that a copy shows where it came from.
MaxCurlH == 4
MaxCurlW == 2

\* np.zeros_like(spine_warped): the value of a pixel never written
Unwritten == 0

\* bg_color_bgr, a value no source pixel has
Background == -1

SourcePixel(w, y, x) == 1 + y * w + x

\* spine_offset_y_top and spine_offset_y_bottom
CurlOffsets == {<<0, 1>>, <<15, 2>>, <<16, 1>>}

\* line 90: normalized_x = (w - x - 1) / w
NormalizedX(w, x) == RatOf(w - x - 1, w)

\* lines 96-102: int(np.sqrt((1 - normalized_x**2) * offset**2) - offset) for
\* offset > 0, else 0.  The value is -(offset - sqrt(A)) with
\* A = (1 - normalized_x**2) * offset**2 <= offset**2, and int() truncates it
\* to -k for the largest integer k with sqrt(A) <= offset - k.
CurlOffsetAt(w, x, offset) ==
    LET p == offset[1]
        q == offset[2]
        m == w - x - 1
        fits(k) == /\ p - k * q >= 0
                   /\ (w * w - m * m) * p * p <= w * w * (p - k * q) * (p - k * q)
    IN IF p <= 0 THEN 0
       ELSE -Cardinality({k \in 1..Trunc(offset) : fits(k)})

\* lines 113-119: the displacement of row y in a column whose offsets are
\* top and bottom: int(top * (1 - 2 * y / h)) above the middle, else
\* int(-bottom * (2 * y / h - 1))
Displacement(h, y, top, bottom) ==
    IF 2 * y < h THEN Trunc(RatOf(top * (h - 2 * y), h))
    ELSE Trunc(RatOf(-bottom * (2 * y - h), h))

\* lines 139-143: processed_image[empty_mask, x_col] = bg_color_bgr
FillEmpty_KeepCopied(pixel, masked) == pixel

FillEmpty(pixel, masked) == IF masked THEN pixel ELSE Background

\* lines 111-143 for the column x_col: the new column of the image and of
\* the mask
CurlColumn(in, top, bottom, x_col) ==
    LET new_y(y) == y + Displacement(in.h, y, top, bottom)
        valid(y) == new_y(y) >= 0 /\ new_y(y) < in.h
        copied(y) == IF valid(y) THEN SourcePixel(in.w, new_y(y), x_col) ELSE Unwritten
        masked(y) == IF ~valid(y) THEN FALSE
                     ELSE IF in.has_mask THEN in.mask[<<new_y(y), x_col>>] ELSE TRUE
    IN [image |-> [y \in 0..(in.h - 1) |-> FillEmpty(copied(y), masked(y))],
        mask |-> [y \in 0..(in.h - 1) |-> masked(y)]]

Cells(h, w) == (0..(h - 1)) \X (0..(w - 1))

\* the masks tried: all content, or content with one cell or all cells empty
Masks(h, w) ==
    {[c \in Cells(h, w) |-> TRUE], [c \in Cells(h, w) |-> FALSE]}
    \cup {[c \in Cells(h, w) |-> c # hole] : hole \in Cells(h, w)}

NoCurl == [x_col |-> 0]

QInit ==
    /\ q_pc = "offsets"
    /\ q_out = NoCurl
    /\ \E h \in 1..MaxCurlH, w \in 1..MaxCurlW, top \in CurlOffsets,
          bottom \in CurlOffsets, has_mask \in BOOLEAN :
         \E mask \in IF has_mask THEN Masks(h, w) ELSE {[c \in Cells(h, w) |-> TRUE]} :
            q_in = [h |-> h, w |-> w, spine_offset_y_top |-> top,
                    spine_offset_y_bottom |-> bottom, has_mask |-> has_mask,
                    mask |-> mask]

\* lines 80-105: the empty outputs, normalized_x and the two offset arrays
QOffsets ==
    /\ q_pc = "offsets"
    /\ q_pc' = "columns"
    /\ q_out' = [x_col |-> 0,
                 normalized_x |-> [x \in 0..(q_in.w - 1) |-> NormalizedX(q_in.w, x)],
                 top_offset |-> [x \in 0..(q_in.w - 1) |->
                                    CurlOffsetAt(q_in.w, x, q_in.spine_offset_y_top)],
                 bottom_offset |-> [x \in 0..(q_in.w - 1) |->
                                       CurlOffsetAt(q_in.w, x, q_in.spine_offset_y_bottom)],
                 image |-> [c \in Cells(q_in.h, q_in.w) |-> Unwritten],
                 mask |-> [c \in Cells(q_in.h, q_in.w) |-> FALSE]]
    /\ UNCHANGED q_in
    /\ UNCHANGED <<pvars, cvars, tvars, gvars, kvars, uvars, xvars>>

\* lines 111-143: one pass of `for x_col in range(w)`; after the last the
\* function returns
QColumn ==
    /\ q_pc = "columns"
    /\ \E col \in {CurlColumn(q_in, q_out.top_offset[q_out.x_col],
                               q_out.bottom_offset[q_out.x_col], q_out.x_col)} :
          q_out' = [q_out EXCEPT
                      !.image = [c \in Cells(q_in.h, q_in.w) |->
                                   IF c[2] = q_out.x_col THEN col.image[c[1]] ELSE @[c]],
                      !.mask = [c \in Cells(q_in.h, q_in.w) |->
                                  IF c[2] = q_out.x_col THEN col.mask[c[1]] ELSE @[c]],
                      !.x_col = @ + 1]
    /\ q_pc' = IF q_out.x_col + 1 = q_in.w THEN "done" ELSE "columns"
    /\ UNCHANGED q_in
    /\ UNCHANGED <<pvars, cvars, tvars, gvars, kvars, uvars, xvars>>

QIdle == q_pc = "idle" /\ q_in = NoCurl /\ q_out = NoCurl

\* ============================================================ sidebar
\* setup_ui of ui.py, lines 17-181 and its return: the Streamlit script runs
\* from the top after every interaction; st.session_state and the values of
\* the widgets persist between the runs.  The widgets behave as Streamlit
\* documents them:
\*  - a slider returns a value within its min_value and max_value;
\*  - a widget whose key was assigned through st.session_state in this run
\*    takes that value;
\*  - a widget called with another max_value is a new widget: without such an
\*    assignment it starts from its `value` argument; called with another
\*    `value` only, it is a new widget or the same one, depending on the
\*    Streamlit version;
\*  - st.rerun() ends the run at once and starts the next.

Perspectives == {35, 60, 80}

SpreadValues == {0, 5, 10, 20, 30, 55}

\* line 70
MaxSpineSpreadAngle_Wider(perspective_angle) == 100 - perspective_angle

MaxSpineSpreadAngle(perspective_angle) == 90 - perspective_angle

\* what the uploader of line 156 holds: nothing, a file json.load rejects,
\* or a dictionary with the keys `keys`
NoUpload == [present |-> FALSE, valid |-> FALSE, keys |-> {},
             perspective_angle |-> 0, spine_spread_angle |-> 0]

ConfigUpload(keys, perspective_angle, spine_spread_angle) ==
    [present |-> TRUE, valid |-> TRUE, keys |-> keys,
     perspective_angle |-> perspective_angle, spine_spread_angle |-> spine_spread_angle]

ConfigUploads ==
    {[present |-> TRUE, valid |-> FALSE, keys |-> {},
      perspective_angle |-> 0, spine_spread_angle |-> 0],
     ConfigUpload({}, 0, 0),
     ConfigUpload({"spine_spread_angle"}, 0, 5),
     ConfigUpload({"spine_spread_angle"}, 0, 55),
     ConfigUpload({"perspective_angle", "spine_spread_angle"}, 80, 5),
     ConfigUpload({"perspective_angle"}, 60, 0)}

\* lines 40-43: get_config_value
get_config_value(imported_config, key, default) ==
    IF key \in imported_config.keys THEN imported_config[key] ELSE default

\* line 162: the condition of the import
ShouldImport_Always(uploaded_config, config_processed) == uploaded_config.present

ShouldImport(uploaded_config, config_processed) ==
    uploaded_config.present /\ ~config_processed

NoParams == [returned |-> FALSE]

\* the first run of a session: st.session_state is empty
UInit ==
    /\ u_pc = "sidebar"
    /\ u_session = [fresh |-> TRUE, spine_spread_angle |-> 0,
                    imported_config |-> NoUpload, config_processed |-> FALSE]
    /\ u_widgets = [perspective |-> 35, perspective_value |-> 35,
                    spread_max |-> 0, spread_value |-> 0, rendered |-> FALSE,
                    uploaded_config |-> NoUpload]
    /\ u_params = NoParams
    /\ u_hist = [imports |-> 0, reruns |-> 0, clamped |-> FALSE]

\* lines 17-181: the session defaults, the two angle sliders and the
\* configuration block, which may end the run with st.rerun()
USidebar ==
    /\ u_pc = "sidebar"
    /\ LET imported_config == u_session.imported_config
           \* line 67: a slider without key starts again from `value` when
           \* `value` changes
           perspective_value == get_config_value(imported_config, "perspective_angle", 35)
           perspective_angle == IF perspective_value # u_widgets.perspective_value
                                THEN perspective_value ELSE u_widgets.perspective
           max_spine_spread_angle == MaxSpineSpreadAngle(perspective_angle)
           stored == u_session.spine_spread_angle
           wanted == get_config_value(imported_config, "spine_spread_angle", stored)
           clamp == wanted > max_spine_spread_angle
           current_spine_spread_angle == IF clamp THEN max_spine_spread_angle ELSE wanted
           assigned == u_session.fresh \/ clamp
           kept == IF clamp THEN current_spine_spread_angle ELSE stored
           import == ShouldImport(u_widgets.uploaded_config, u_session.config_processed)
                     /\ u_widgets.uploaded_config.valid
       IN \E spine_spread_angle \in
              IF assigned THEN {kept}
              ELSE IF ~u_widgets.rendered \/ u_widgets.spread_max # max_spine_spread_angle
                   THEN {current_spine_spread_angle}
              ELSE IF u_widgets.spread_value # current_spine_spread_angle
                   THEN {kept, current_spine_spread_angle}
              ELSE {kept} :
            /\ u_widgets' = [u_widgets EXCEPT !.perspective = perspective_angle,
                                              !.perspective_value = perspective_value,
                                              !.spread_max = max_spine_spread_angle,
                                              !.spread_value = current_spine_spread_angle,
                                              !.rendered = TRUE]
            /\ u_session' =
                 [fresh |-> FALSE,
                  spine_spread_angle |-> spine_spread_angle,
                  imported_config |-> IF import THEN u_widgets.uploaded_config
                                      ELSE imported_config,
                  config_processed |-> IF import THEN TRUE
                                       ELSE IF ~u_widgets.uploaded_config.present THEN FALSE
                                       ELSE u_session.config_processed]
            /\ u_hist' = [imports |-> IF import THEN u_hist.imports + 1 ELSE u_hist.imports,
                          reruns |-> IF import THEN u_hist.reruns + 1 ELSE u_hist.reruns,
                          clamped |-> clamp]
            /\ u_pc' = IF import THEN "sidebar" ELSE "rest"
            /\ u_params' = NoParams
    /\ UNCHANGED <<pvars, cvars, tvars, gvars, kvars, qvars, xvars>>

\* lines 184-305 as far as the angles go: the run reaches its end and
\* returns UIParams
UReturn ==
    /\ u_pc = "rest"
    /\ u_pc' = "wait"
    /\ u_params' = [returned |-> TRUE,
                    perspective_angle |-> u_widgets.perspective,
                    spine_spread_angle |-> u_session.spine_spread_angle]
    /\ UNCHANGED <<u_session, u_widgets, u_hist>>
    /\ UNCHANGED <<pvars, cvars, tvars, gvars, kvars, qvars, xvars>>

\* the user moves the slider of line 67
UserPerspective ==
    /\ u_pc = "wait"
    /\ \E p \in Perspectives \ {u_widgets.perspective} :
          u_widgets' = [u_widgets EXCEPT !.perspective = p]
    /\ u_pc' = "sidebar"
    /\ u_hist' = [u_hist EXCEPT !.reruns = 0]
    /\ UNCHANGED <<u_session, u_params>>
    /\ UNCHANGED <<pvars, cvars, tvars, gvars, kvars, qvars, xvars>>

\* the user moves the slider of line 82 within the range it was drawn with;
\* its key carries the value into st.session_state
UserSpread ==
    /\ u_pc = "wait"
    /\ \E v \in SpreadValues \ {u_session.spine_spread_angle} :
          /\ v <= u_widgets.spread_max
          /\ u_session' = [u_session EXCEPT !.spine_spread_angle = v]
    /\ u_pc' = "sidebar"
    /\ u_hist' = [u_hist EXCEPT !.reruns = 0]
    /\ UNCHANGED <<u_widgets, u_params>>
    /\ UNCHANGED <<pvars, cvars, tvars, gvars, kvars, qvars, xvars>>

\* the user puts a file into the uploader of line 156, replaces or removes it
UserConfig ==
    /\ u_pc = "wait"
    /\ \E f \in (ConfigUploads \cup {NoUpload}) \ {u_widgets.uploaded_config} :
          u_widgets' = [u_widgets EXCEPT !.uploaded_config = f]
    /\ u_pc' = "sidebar"
    /\ u_hist' = [u_hist EXCEPT !.reruns = 0, !.imports = 0]
    /\ UNCHANGED <<u_session, u_params>>
    /\ UNCHANGED <<pvars, cvars, tvars, gvars, kvars, qvars, xvars>>

UIdle ==
    /\ u_pc = "idle"
    /\ u_session = NoParams
    /\ u_widgets = NoParams
    /\ u_params = NoParams
    /\ u_hist = NoParams

\* ============================================================ uploads
\* setup_ui of ui.py, lines 184-305: the two image uploaders, the example
\* mode and the images handed to the rendering.  A button returns True only
\* in the run its click started; st.rerun() ends the run at once.  Whether
\* an uploader keeps its files when it is drawn with another `disabled`
\* depends on the Streamlit version: both outcomes are taken.

NoFile == "None"

CoverUploads == {"coverA.png", "coverB.png"}

SpineUploads == {<<"spine1.png">>, <<"spine2.png", "spine3.png">>}

ExampleCover == "cover.png"

ExampleSpines == <<"spine1.png", "spine2.png">>

\* Python's `a or b` for a value whose only falsy form is `falsy`
PythonOr(a, b, falsy) == IF a = falsy THEN b ELSE a

\* lines 279-280
ChosenImages(saved, user, falsy) == PythonOr(saved, user, falsy)

XInit ==
    /\ x_pc = "uploads"
    /\ x_session = [example_mode |-> FALSE, saved_cover_image |-> NoFile,
                    saved_spine_images |-> <<>>]
    /\ x_widgets = [user_cover_image |-> NoFile, user_spine_images |-> <<>>,
                    disabled |-> FALSE, clicked |-> "none"]
    /\ x_params = NoParams

\* lines 189-253: the session defaults, the uploaders and the two buttons
\* of the example mode, each of which ends the run with st.rerun()
XUploads ==
    /\ x_pc = "uploads"
    /\ \E keep \in IF x_widgets.disabled = x_session.example_mode THEN {TRUE}
                   ELSE {TRUE, FALSE} :
         LET user_cover_image == IF keep THEN x_widgets.user_cover_image ELSE NoFile
             user_spine_images == IF keep THEN x_widgets.user_spine_images ELSE <<>>
             close == x_session.example_mode /\ x_widgets.clicked = "close_example"
             enter == ~x_session.example_mode /\ x_widgets.clicked = "use_example"
         IN /\ x_widgets' = [user_cover_image |-> user_cover_image,
                             user_spine_images |-> user_spine_images,
                             disabled |-> x_session.example_mode,
                             clicked |-> "none"]
            /\ x_session' =
                 IF close THEN [x_session EXCEPT !.example_mode = FALSE]
                 ELSE IF enter THEN [example_mode |-> TRUE,
                                     saved_cover_image |-> user_cover_image,
                                     saved_spine_images |-> user_spine_images]
                 ELSE x_session
            /\ x_pc' = IF close \/ enter THEN "uploads" ELSE "images"
    /\ x_params' = NoParams
    /\ UNCHANGED <<pvars, cvars, tvars, gvars, kvars, qvars, uvars>>

\* lines 255-305: the images of the example or of the user, and the return
XImages ==
    /\ x_pc = "images"
    /\ x_pc' = "wait"
    /\ x_params' =
         IF x_session.example_mode
         THEN [returned |-> TRUE, cover_image |-> ExampleCover, spine_images |-> ExampleSpines]
         ELSE [returned |-> TRUE,
               cover_image |-> ChosenImages(x_session.saved_cover_image,
                                            x_widgets.user_cover_image, NoFile),
               spine_images |-> ChosenImages(x_session.saved_spine_images,
                                             x_widgets.user_spine_images, <<>>)]
    /\ UNCHANGED <<x_session, x_widgets>>
    /\ UNCHANGED <<pvars, cvars, tvars, gvars, kvars, qvars, uvars>>

\* the user uploads, replaces or removes the cover image (line 204); the
\* uploader is disabled in example mode
XUserCover ==
    /\ x_pc = "wait"
    /\ ~x_widgets.disabled
    /\ \E f \in (CoverUploads \cup {NoFile}) \ {x_widgets.user_cover_image} :
          x_widgets' = [x_widgets EXCEPT !.user_cover_image = f]
    /\ x_pc' = "uploads"
    /\ UNCHANGED <<x_session, x_params>>
    /\ UNCHANGED <<pvars, cvars, tvars, gvars, kvars, qvars, uvars>>

\* the user changes the spine images (line 210)
XUserSpines ==
    /\ x_pc = "wait"
    /\ ~x_widgets.disabled
    /\ \E l \in (SpineUploads \cup {<<>>}) \ {x_widgets.user_spine_images} :
          x_widgets' = [x_widgets EXCEPT !.user_spine_images = l]
    /\ x_pc' = "uploads"
    /\ UNCHANGED <<x_session, x_params>>
    /\ UNCHANGED <<pvars, cvars, tvars, gvars, kvars, qvars, uvars>>

\* the user clicks the button the last run drew: line 221 in example mode,
\* line 247 outside it
XClick ==
    /\ x_pc = "wait"
    /\ x_widgets' = [x_widgets EXCEPT !.clicked =
                        IF x_session.example_mode THEN "close_example" ELSE "use_example"]
    /\ x_pc' = "uploads"
    /\ UNCHANGED <<x_session, x_params>>
    /\ UNCHANGED <<pvars, cvars, tvars, gvars, kvars, qvars, uvars>>

XIdle ==
    /\ x_pc = "idle"
    /\ x_session = NoParams
    /\ x_widgets = NoParams
    /\ x_params = NoParams

\* ============================================================ specifications
Init == PInit /\ CIdle /\ TIdle /\ GIdle /\ KIdle /\ QIdle /\ UIdle /\ XIdle

Next == ShadowStage \/ MergeStage \/ GenerateStage \/ PostStage

Spec == Init /\ [][Next]_vars

InitCompose == PIdle /\ CInit /\ TIdle /\ GIdle /\ KIdle /\ QIdle /\ UIdle /\ XIdle

NextCompose == Compose

SpecCompose == InitCompose /\ [][NextCompose]_vars

InitPost == PIdle /\ CIdle /\ TInit /\ GIdle /\ KIdle /\ QIdle /\ UIdle /\ XIdle

NextPost == PostOnce \/ PostAgain

SpecPost == InitPost /\ [][NextPost]_vars

InitGeometry == PIdle /\ CIdle /\ TIdle /\ GInit /\ KIdle /\ QIdle /\ UIdle /\ XIdle

NextGeometry == GConvert \/ GTransformCover \/ GTransformSpine \/ GCanvas

SpecGeometry == InitGeometry /\ [][NextGeometry]_vars

InitCli == PIdle /\ CIdle /\ TIdle /\ GIdle /\ KInit /\ QIdle /\ UIdle /\ XIdle

NextCli == KApplyConfig \/ KValidate \/ KLoad \/ KRender \/ KSave

SpecCli == InitCli /\ [][NextCli]_vars

InitCurl == PIdle /\ CIdle /\ TIdle /\ GIdle /\ KIdle /\ QInit /\ UIdle /\ XIdle

NextCurl == QOffsets \/ QColumn

SpecCurl == InitCurl /\ [][NextCurl]_vars

InitSidebar == PIdle /\ CIdle /\ TIdle /\ GIdle /\ KIdle /\ QIdle /\ UInit /\ XIdle

NextSidebar == USidebar \/ UReturn \/ UserPerspective \/ UserSpread \/ UserConfig

SpecSidebar == InitSidebar /\ [][NextSidebar]_vars

InitUploads == PIdle /\ CIdle /\ TIdle /\ GIdle /\ KIdle /\ QIdle /\ UIdle /\ XInit

NextUploads == XUploads \/ XImages \/ XUserCover \/ XUserSpines \/ XClick

SpecUploads == InitUploads /\ [][NextUploads]_vars

\* ==================================================================== claims
\* ---- SpecCompose

\* C1: in _generate_3d_cover, with bg_alpha = 255 the composed image has
\* exactly 3 channels; with bg_alpha < 255 it has 4 channels and the alpha of
\* every canvas pixel is 255 where the cover mask or the spine mask, shifted to
\* its canvas position, is true and bg_alpha everywhere else, whatever the
\* pixel's colour.
C1_AlphaFollowsMasks ==
    c_pc = "done" =>
        LET dsw == c_in.spine_warped.w
            inMask(y, x) == \/ x >= dsw /\ c_in.cover_mask[y][x - dsw]
                            \/ x < dsw /\ c_in.spine_mask[y][x]
        IN /\ c_out.w = c_in.cover_warped.w + dsw
           /\ c_in.bg_alpha = 255 =>
                /\ c_out.ch = 3
                /\ \A y \in 0..c_out.h-1, x \in 0..c_out.w-1 : Len(c_out.px[y][x]) = 3
           /\ c_in.bg_alpha < 255 =>
                /\ c_out.ch = 4
                /\ \A y \in 0..c_out.h-1, x \in 0..c_out.w-1 :
                      /\ Len(c_out.px[y][x]) = 4
                      /\ c_out.px[y][x][4] = IF inMask(y, x) THEN 255 ELSE c_in.bg_alpha

\* C1 witness: a translucent background, a content pixel whose colour equals
\* the background colour (alpha 255) and a fill pixel (alpha bg_alpha).
C1_Witness ==
    /\ c_pc = "done" /\ c_in.bg_alpha = 127 /\ c_out.ch = 4
    /\ \E y \in 0..c_out.h-1, x \in 0..c_out.w-1 :
          /\ x >= c_in.spine_warped.w
          /\ c_in.cover_mask[y][x - c_in.spine_warped.w]
          /\ SubSeq(c_out.px[y][x], 1, 3) = SwapRB(c_in.bg_color_bgr)
          /\ c_out.px[y][x][4] = 255
    /\ \E y \in 0..c_out.h-1 : ~c_in.spine_mask[y][0] /\ c_out.px[y][0][4] = 127

\* ---- SpecPost

\* C2 (as claimed): applying _post_process_image to its own output with the
\* same arguments returns that output unchanged.
C2_PostIdempotent == t_pc = "twice" => t_out2.img = t_out1.img

\* C2 (amended): the second application returns the first output unchanged
\* whenever int(final_size * border_percentage) = 0; in every case it keeps the
\* size final_size x final_size and the channel count.
C2_PostIdempotentWithoutBorder ==
    t_pc = "twice" =>
        LET bp == t_in.border_percentage IN
        /\ (t_in.final_size * bp[1]) \div bp[2] = 0 => t_out2.img = t_out1.img
        /\ t_out2.img.h = t_out1.img.h /\ t_out2.img.w = t_out1.img.w
        /\ t_out2.img.ch = t_out1.img.ch

\* C2 witness: no border, an output holding both content and background
\* pixels, post-processed a second time.
C2_Witness ==
    /\ t_pc = "twice"
    /\ (t_in.final_size * t_in.border_percentage[1]) \div t_in.border_percentage[2] = 0
    /\ t_in.border_percentage[1] > 0
    /\ \E y \in 0..t_out1.img.h-1, x1, x2 \in 0..t_out1.img.w-1 :
          t_out1.img.px[y][x1] # t_out1.img.px[y][x2]

\* C3: for every image of positive size, final_size > 0 and border_percentage
\* in [0, 0.2], _post_process_image completes without error and returns a
\* final_size x final_size image with the channel count of its input.
C3_PostAlwaysSquare ==
    /\ t_pc # "error"
    /\ t_pc \in {"once", "twice"} =>
          /\ t_out1.img.h = t_in.final_size /\ t_out1.img.w = t_in.final_size
          /\ t_out1.img.ch = t_in.img_array.ch
          /\ t_out1.new_width >= 1 /\ t_out1.new_height >= 1

\* C4 (as claimed): the longer side of the scaled image equals
\* final_size * (1 - 2 * border_percentage) exactly.
C4_LongerSideIsInnerSizeExactly ==
    t_pc \in {"once", "twice"} =>
        LET bp == t_in.border_percentage IN
        Max(t_out1.new_width, t_out1.new_height) * bp[2]
            = t_in.final_size * (bp[2] - 2 * bp[1])

\* C4 (amended): the longer side of the scaled image equals
\* final_size - 2 * int(final_size * border_percentage), or one pixel less.
C4_LongerSideIsTruncatedInnerSize ==
    t_pc \in {"once", "twice"} =>
        LET bp == t_in.border_percentage
            inner == t_in.final_size - 2 * ((t_in.final_size * bp[1]) \div bp[2])
            long1 == Max(t_out1.new_width, t_out1.new_height)
            long2 == Max(t_out2.new_width, t_out2.new_height)
        IN /\ long1 \in {inner - 1, inner}
           /\ t_pc = "twice" => long2 \in {inner - 1, inner}

\* C4 witness: final_size * border_percentage is not an integer and the longer
\* side is the truncated inner size.
C4_Witness ==
    /\ t_pc = "once"
    /\ (t_in.final_size * t_in.border_percentage[1]) % t_in.border_percentage[2] # 0
    /\ (t_in.final_size * t_in.border_percentage[1]) \div t_in.border_percentage[2] = 1
    /\ Max(t_out1.new_width, t_out1.new_height) = t_in.final_size - 2

\* C5: in the output of _post_process_image every pixel outside the placement
\* rectangle holds the background RGB (and alpha = bg_alpha in a 4-channel
\* image), and the rectangle leaves at least int(final_size * border_percentage)
\* background pixels on each of the four sides.
C5_BorderIsBackground ==
    LET bp == t_in.border_percentage
        f == t_in.final_size
        border == (f * bp[1]) \div bp[2]
        ok(r) ==
          /\ \A y \in 0..f-1, x \in 0..f-1 :
                (\/ x < r.x_offset \/ x >= r.x_offset + r.new_width
                 \/ y < r.y_offset \/ y >= r.y_offset + r.new_height)
                => /\ SubSeq(r.img.px[y][x], 1, 3) = t_in.bg_color
                   /\ r.img.ch = 4 => r.img.px[y][x][4] = t_in.bg_alpha
          /\ r.x_offset >= border /\ f - (r.x_offset + r.new_width) >= border
          /\ r.y_offset >= border /\ f - (r.y_offset + r.new_height) >= border
    IN /\ t_pc \in {"once", "twice"} => ok(t_out1)
       /\ t_pc = "twice" => ok(t_out2)

\* C5 witness: a 4-channel image of content only, a translucent background and
\* a border of at least one pixel.
C5_Witness ==
    /\ t_pc = "once" /\ t_out1.img.ch = 4 /\ t_in.bg_alpha = 127
    /\ t_out1.x_offset >= 1 /\ t_out1.y_offset >= 1
    /\ t_out1.img.px[0][0] = Append(t_in.bg_color, 127)
    /\ t_out1.img.px[t_out1.y_offset][t_out1.x_offset][4] = 255

\* ---- Spec

\* C6: for mode "none" and for any mode outside the mode-to-asset table,
\* _apply_shadow_to_spines reads no asset, never calls _overlay_shadow and
\* returns exactly the input spine images, unchanged and in the same order.
C6_BypassReturnsInput ==
    (log # <<>> /\ spine_shadow_mode \notin {"linear", "reflective"}) =>
        /\ assetReads = 0
        /\ overlayCalls = 0
        /\ lists[processed_spine_images] = lists[spine_images]
        /\ \A i \in 1..Len(lists[processed_spine_images]) :
              LET id == lists[processed_spine_images][i]
              IN id = FirstSpineId + i - 1 /\ imgs[id] = Orig(id)

\* C6 witness: an unrecognised mode with two spines, after the shadow stage.
C6_Witness ==
    /\ pc = "merge" /\ spine_shadow_mode = "glossy"
    /\ Len(lists[processed_spine_images]) = 2

\* C7: when the asset of a recognised mode cannot be read, or the overlay
\* raises on some spine, _apply_shadow_to_spines raises nothing and returns all
\* the input spines unmodified, never a mix, and the render goes on.
C7_ShadowFailsOpen ==
    LET n == Len(lists[spine_images]) IN
    (/\ log # <<>> /\ n > 0
     /\ spine_shadow_mode \in {"linear", "reflective"}
     /\ (~assetOk \/ overlayFailAt \in 1..n)) =>
        /\ Len(lists[processed_spine_images]) = n
        /\ \A i \in 1..n :
              LET id == lists[processed_spine_images][i]
              IN id = FirstSpineId + i - 1 /\ imgs[id] = Orig(id)
        /\ pc = "error" => log[Len(log)] # "shadow"
        /\ Len(log) = 1 => pc = "merge"

\* C7 witness: the overlay raised on the second spine after the first had been
\* shadowed, and the render completed.
C7_Witness ==
    /\ pc = "done" /\ shadowRaised /\ overlayFailAt = 2 /\ overlayCalls = 2
    /\ Len(lists[processed_spine_images]) = 2

\* C8: no step of render_3d_cover changes an image object that already exists
\* or the caller's spine_images list: every stage writes only to objects it
\* has just created.
C8_InputsNeverMutated ==
    [][/\ lists'[spine_images] = lists[spine_images]
       /\ \A id \in DOMAIN imgs : id \in DOMAIN imgs' /\ imgs'[id] = imgs[id]
       /\ \A l \in DOMAIN lists : l \in DOMAIN lists' /\ lists'[l] = lists[l]]_pvars

\* C8 witness: a completed hardcover render in which both spines were
\* shadowed, the caller's objects as they were.
C8_Witness ==
    /\ pc = "done" /\ book_type = "hardcover" /\ overlayCalls = 2 /\ ~shadowRaised
    /\ lists[spine_images] = SpineIds(2)
    /\ imgs[CoverId] = Orig(CoverId)
    /\ lists[processed_spine_images] # lists[spine_images]

\* C9: the stages run once each in the order shadow, merge, generate, post;
\* the shadow is applied to each spine image on its own, before that image is
\* merged, resized, warped or curled.
C9_StageOrder ==
    LET canon == <<"shadow", "merge", "generate", "post">>
        started(k) == log = SubSeq(canon, 1, k)
    IN /\ pc = "shadow" => started(0)
       /\ pc = "merge" => started(1)
       /\ pc = "generate" => started(2)
       /\ pc = "post" => started(3)
       /\ pc = "done" => started(4)
       /\ pc = "error" => \E k \in 1..4 : started(k)
       /\ \A id \in DOMAIN imgs : \A p \in 1..Len(imgs[id]) :
             \A j \in 1..Len(imgs[id][p].ops) :
                 imgs[id][p].ops[j] = "shadow" => j = 1
       /\ (/\ pc = "done" /\ spine_shadow_mode \in {"linear", "reflective"}
           /\ assetOk /\ overlayFailAt = 0) =>
             \A p \in 1..Len(imgs[result_image]) :
                 imgs[result_image][p].src # CoverId
                    => imgs[result_image][p].ops[1] = "shadow"

\* C9 witness: a completed hardcover render of two shadowed spines.
C9_Witness ==
    /\ pc = "done" /\ log = <<"shadow", "merge", "generate", "post">>
    /\ book_type = "hardcover" /\ spine_shadow_mode = "linear"
    /\ Len(imgs[result_image]) = 3
    /\ imgs[result_image][1].ops
         = <<"shadow", "resize", "curl", "resize", "stitch", "compose", "post">>

\* C10: the curl processor runs if and only if book_type is hardcover, and
\* then exactly once per supplied spine segment; a softcover spine is the one
\* merged image and goes through the planar warp only.
C10_CurlOnlyHardcover ==
    LET curlsOf(ops) == Cardinality({j \in 1..Len(ops) : ops[j] = "curl"})
        spineParts == {p \in 1..Len(imgs[result_image]) :
                          imgs[result_image][p].src # CoverId}
    IN /\ result_image = None => curlCalls = 0
       /\ result_image # None =>
            /\ curlCalls = IF book_type = "hardcover"
                           THEN Len(lists[spine_images]) ELSE 0
            /\ \A p \in spineParts :
                  LET ops == imgs[result_image][p].ops IN
                  IF book_type = "hardcover"
                  THEN curlsOf(ops) = 1
                  ELSE /\ curlsOf(ops) = 0
                       /\ \E j \in 1..Len(ops) - 1 :
                             ops[j] = "merge" /\ ops[j + 1] = "warp"

\* C10 witness: a hardcover render whose two segments were curled once each.
C10_Witness ==
    /\ result_image # None /\ book_type = "hardcover" /\ curlCalls = 2
    /\ Len(lists[hardcover_spines]) = 2

\* ---- SpecGeometry

\* The hardcover spine of the current state, once _transform_spine_hardcover
\* has returned.
Stitched ==
    /\ g_pc \in {"canvas", "done", "failed"}
    /\ "spine" \in DOMAIN g_out
    /\ g_in.book_type = "hardcover"
    /\ g_out.spine.err = "none"

\* C11: in _transform_spine_hardcover the stitched spine's total width is the
\* sum of the segments' display widths; the segments are placed right-to-left
\* in supplied order (the first supplied is the rightmost) into adjacent,
\* pairwise disjoint column ranges that cover [0, total_width) exactly, and no
\* segment is cropped or skipped.
C11_StitchTilesTheWidth ==
    Stitched =>
        LET s == g_out.spine
            n == Len(g_in.hardcover_spines)
            pl == s.placements
        IN /\ Len(s.segments) = n /\ Len(pl) = n
           /\ s.image.w = SumWidths(s.segments)
           /\ s.display_spine_width = RInt(s.image.w)
           /\ pl[1].end_x = s.image.w
           /\ pl[n].start_x = 0
           /\ \A i \in 1..n :
                 /\ pl[i].placed
                 /\ pl[i].index = i
                 /\ pl[i].end_x - pl[i].start_x = s.segments[i].image.w
                 /\ pl[i].copied = s.segments[i].image
                 /\ i < n => pl[i + 1].end_x = pl[i].start_x
           /\ \A x \in 0..s.image.w - 1 :
                 Cardinality({i \in 1..n : pl[i].start_x <= x /\ x < pl[i].end_x}) = 1

\* C11 witness: three segments of two different widths have been stitched.
C11_Witness ==
    /\ Stitched
    /\ Len(g_out.spine.segments) = 3
    /\ g_out.spine.segments[1].image.w > g_out.spine.segments[2].image.w
    /\ g_out.spine.placements[3].start_x = 0
    /\ g_out.spine.placements[1].end_x = g_out.spine.image.w

\* The hardcover segments computed so far are those of N identical images.
IdenticalSpines ==
    /\ "spine" \in DOMAIN g_out
    /\ g_in.book_type = "hardcover"
    /\ \A i \in 1..Len(g_in.hardcover_spines) :
          g_in.hardcover_spines[i] = g_in.hardcover_spines[1]

\* C12 (as claimed): stitching N identical spine images gives a combined
\* spine whose width is N times the single-spine display width up to 1 px per
\* segment, and whose height is the shared cover height.
C12_StitchIsNTimesSingle ==
    (Stitched /\ IdenticalSpines) =>
        LET s == g_out.spine
            n == Len(s.segments)
            single == s.segments[1].display_width
        IN /\ s.image.h = Trunc(g_out.params.cover_height)
           /\ Abs(s.image.w - n * single) <= n

\* C12 (amended): for N identical spine images each further segment is
\* rescaled to the remaining visible height of the one before it: a segment
\* whose two offsets sum to at least 1 px is followed by a strictly lower and
\* no wider segment, zero offsets leave the next segment the same size; the
\* stitched width is the sum of the segments' widths, never more than N times
\* the single-spine width and equal to it when the offsets are zero, and the
\* stitched height is int(cover_height).
C12_StitchShrinksWithOffsets ==
    IdenticalSpines =>
        LET s == g_out.spine
            ok == {k \in 1..Len(s.segments) : s.segments[k].err = "none"}
            drop(k) == RAdd(s.segments[k].top, s.segments[k].bottom)
        IN /\ \A k \in ok : (k + 1) \in ok =>
                 LET a == s.segments[k]
                     b == s.segments[k + 1]
                 IN /\ drop(k)[1] >= drop(k)[2] =>
                          /\ b.display_height < a.display_height
                          /\ b.display_width <= a.display_width
                    /\ drop(k)[1] = 0 =>
                          /\ b.display_height = a.display_height
                          /\ b.display_width = a.display_width
           /\ Stitched =>
                 /\ s.image.h = Trunc(g_out.params.cover_height)
                 /\ s.image.w = SumWidths(s.segments)
                 /\ s.image.w <= Len(s.segments) * s.segments[1].display_width
                 /\ (\A k \in ok : drop(k)[1] = 0) =>
                       s.image.w = Len(s.segments) * s.segments[1].display_width

\* C12 witness: three identical spines stitched, the result more than 3 px
\* narrower than three times the first segment.
C12_Witness ==
    /\ Stitched /\ IdenticalSpines
    /\ Len(g_out.spine.segments) = 3
    /\ g_out.spine.image.w < 3 * g_out.spine.segments[1].display_width - 3
    /\ g_out.spine.segments[3].display_height < g_out.spine.segments[2].display_height

\* The canvas of the current state has been laid out from panels whose
\* requested sizes are all positive.
CanvasLaidOut ==
    /\ "canvas" \in DOMAIN g_out
    /\ g_out.cover.req.w > 0 /\ g_out.cover.req.h > 0
    /\ Trunc(g_out.spine.display_spine_width) > 0
    /\ Trunc(g_out.spine.spine_height) > 0

\* C13: the composed canvas has width int(cover_display_width) +
\* int(total_spine_display_width) and height max(int(cover_height),
\* int(spine_height)); the spine occupies the columns [0, int(spine_display_width)),
\* the cover the columns from int(spine_display_width) to the right edge, the
\* two regions are disjoint, and each placement region has exactly the shape of
\* the warped image and of the mask written into it, for softcover and
\* hardcover alike.
C13_CanvasLayout ==
    CanvasLaidOut =>
        LET c == g_out.canvas
            dcw == Trunc(g_out.params.display_cover_width)
            dsw == Trunc(g_out.spine.display_spine_width)
            ch == Trunc(g_out.params.cover_height)
            sh == Trunc(g_out.spine.spine_height)
        IN /\ c.err = "none" /\ g_pc = "done"
           /\ c.final_width = dcw + dsw
           /\ c.final_height = Max(ch, sh)
           /\ g_out.allocs[Len(g_out.allocs)] = Shape(c.final_height, c.final_width)
           /\ c.spine_cols = <<0, dsw>>
           /\ c.cover_cols = <<dsw, c.final_width>>
           /\ c.spine_rows = <<0, sh>>
           /\ c.cover_rows = <<0, ch>>
           /\ c.spine_region = g_out.spine.image /\ c.spine_region = g_out.spine.mask
           /\ c.cover_region = g_out.cover.image /\ c.cover_region = g_out.cover.mask
           /\ c.cover_region = Shape(ch, dcw)
           /\ c.spine_region = Shape(sh, dsw)

\* C13 witness: a hardcover canvas whose two display widths both have a
\* fractional part, composed from two stitched segments.
C13_Witness ==
    /\ g_pc = "done" /\ CanvasLaidOut
    /\ g_in.book_type = "hardcover"
    /\ Len(g_out.spine.segments) = 2
    /\ g_out.params.display_cover_width[2] > 1
    /\ g_out.canvas.final_width = g_out.cover.image.w + g_out.spine.image.w
    /\ g_out.canvas.cover_cols[1] = g_out.spine.image.w

\* ---- SpecCompose

\* The alpha plane of a composed image (empty for a 3-channel image).
AlphaPlane(img) ==
    IF img.ch = 4
    THEN [y \in 0..img.h-1 |-> [x \in 0..img.w-1 |-> img.px[y][x][4]]]
    ELSE <<>>

\* The composition of the same inputs with the stroke switched the other way.
OtherStroke == ComposeCanvas([c_in EXCEPT !.stroke_enabled = ~c_in.stroke_enabled])

\* C14: the outline stroke affects only RGB values: for identical inputs the
\* alpha channel produced by _generate_3d_cover with stroke_enabled = true
\* equals the one produced with stroke_enabled = false, and the channel count
\* depends only on bg_alpha.
C14_StrokeLeavesAlpha ==
    c_pc = "done" =>
        /\ AlphaPlane(c_out) = AlphaPlane(OtherStroke)
        /\ c_out.ch = OtherStroke.ch
        /\ c_out.ch = IF c_in.bg_alpha < 255 THEN 4 ELSE 3
        /\ c_out.h = OtherStroke.h /\ c_out.w = OtherStroke.w

\* C14 witness: a translucent composition with the stroke on, in which the
\* stroke changed the colour of a pixel and that pixel's alpha is 255.
C14_Witness ==
    /\ c_pc = "done" /\ c_in.stroke_enabled /\ c_in.bg_alpha = 0 /\ c_out.ch = 4
    /\ \E y \in 0..c_out.h-1, x \in 0..c_out.w-1 :
          /\ SubSeq(c_out.px[y][x], 1, 3) = GrayStroke
          /\ SubSeq(OtherStroke.px[y][x], 1, 3) # GrayStroke
          /\ c_out.px[y][x][4] = 255

\* ---- SpecGeometry

\* C15: every content mask has the same width and height as the image it
\* accompanies, at every stage that produces one: the cover warp, the
\* softcover spine warp, the curl processing, the per-segment rescale and the
\* stitched spine.
C15_MaskMatchesImage ==
    /\ "cover" \in DOMAIN g_out => g_out.cover.mask = g_out.cover.image
    /\ "spine" \in DOMAIN g_out =>
          /\ g_out.spine.mask = g_out.spine.image
          /\ \A k \in 1..Len(g_out.spine.segments) :
                LET seg == g_out.spine.segments[k]
                IN seg.err = "none" =>
                      /\ seg.original_mask = seg.resized
                      /\ seg.curled_mask = seg.curled_image
                      /\ seg.mask = seg.image

\* C15 witness: a stitched hardcover spine with a segment whose pivot width
\* has a fractional part of at least one half, and a warped cover.
C15_Witness ==
    /\ Stitched
    /\ g_out.cover.mask = g_out.cover.image /\ g_out.cover.image.w > 0
    /\ g_out.spine.mask = Shape(Trunc(g_out.params.cover_height),
                                SumWidths(g_out.spine.segments))
    /\ \E k \in 1..Len(g_out.spine.segments) :
          LET seg == g_out.spine.segments[k]
          IN /\ Trunc(RAdd(seg.pivot_width_px, <<1, 2>>)) > Trunc(seg.pivot_width_px)
             /\ seg.curled_mask = seg.curled_image
             /\ seg.mask.h < seg.curled_mask.h

\* C16 (as claimed): a render whose source image has zero width or zero
\* height fails with InvalidImageError.
C16_ZeroSizeRaisesInvalidImageError ==
    (g_pc \in {"failed", "done"} /\ (IsEmpty(g_in.cover) \/ IsEmpty(g_in.spine))) =>
        /\ g_pc = "failed"
        /\ g_out.err = "InvalidImageError"

\* A display size computed so far has a non-positive width or height.
DegenerateSize ==
    \/ /\ "cover" \in DOMAIN g_out
       /\ g_out.cover.req.w <= 0 \/ g_out.cover.req.h <= 0
    \/ /\ "spine" \in DOMAIN g_out
       /\ \E k \in 1..Len(g_out.spine.req) :
             g_out.spine.req[k].w <= 0 \/ g_out.spine.req[k].h <= 0

\* C17 (as claimed): when the geometry inputs yield a degenerate display
\* dimension the render fails with InvalidParameterError, before any array is
\* allocated with that dimension.
C17_DegenerateRaisesInvalidParameterError ==
    (g_pc \in {"failed", "done"} /\ DegenerateSize) =>
        /\ g_pc = "failed"
        /\ g_out.err = "InvalidParameterError"
        /\ ("cover" \in DOMAIN g_out /\ g_out.cover.req.w <= 0) => g_out.allocs = <<>>


\* C18: the command-line tools render all-or-nothing.  The output file is
\* written only after render_3d_cover has returned successfully; when loading
\* the images or the render raises, nothing is written to the output path
\* (the file there is what it was before the run) and the process exits with
\* status 1.
C18_OutputOnlyAfterRender ==
    /\ k_writes > 0 => k_render = "ok"
    /\ k_raised \in {"load", "render"} =>
           /\ k_writes = 0
           /\ k_output \in {"absent", "old"}
           /\ k_exit = "1"

\* a run whose render raised has ended, and a run whose render returned has
\* written its result: here the first, over an older file at the output path
C18_Witness ==
    /\ k_pc = "exited"
    /\ k_raised = "render"
    /\ k_output = "old"
    /\ k_exit = "1"

\* C19 (as claimed): every parameter bundle a command-line tool passes to
\* render_3d_cover is in range: 0 < perspective_angle < 90,
\* 0 <= spine_spread_angle <= 90 - perspective_angle, book_distance > 0,
\* cover_width > 0, final_size > 0, 0 <= bg_alpha <= 255,
\* 0 <= camera_height_ratio <= 1 and 0 <= border_percentage <= 0.2.
C19_CallIsFullyValidated ==
    k_call.called =>
        /\ 0 < k_call.perspective_angle /\ k_call.perspective_angle < 90
        /\ 0 <= k_call.spine_spread_angle
        /\ k_call.spine_spread_angle <= 90 - k_call.perspective_angle
        /\ k_call.book_distance > 0
        /\ k_call.cover_width > 0
        /\ k_call.final_size > 0
        /\ 0 <= k_call.bg_alpha /\ k_call.bg_alpha <= 255
        /\ RLeq(RInt(0), k_call.camera_height_ratio)
        /\ RLeq(k_call.camera_height_ratio, RInt(1))
        /\ RLeq(RInt(0), k_call.border_percentage)
        /\ RLeq(k_call.border_percentage, <<1, 5>>)

\* C20: command-line parameters override the configuration file.  For every
\* parameter of param_mapping, a value typed on the command line that differs
\* from the parser default is never replaced by the file's value, and a
\* parameter takes the file's value only when the command line left it at
\* its default (and the file has its key).
C20_CommandLineOverridesConfig ==
    k_tool \in Tools =>
        \A i \in DOMAIN param_mapping(k_tool) :
            LET cli_param == param_mapping(k_tool)[i][1]
                config_key == param_mapping(k_tool)[i][2]
            IN /\ k_cmdline[cli_param] # get_default[cli_param] =>
                      k_args[cli_param] = k_cmdline[cli_param]
               /\ k_args[cli_param] # k_cmdline[cli_param] =>
                      /\ k_cmdline[cli_param] = get_default[cli_param]
                      /\ config_key \in k_config.keys
                      /\ k_args[cli_param] = Configured[config_key]

\* the renderer is called after a merge in which the file has another value
\* for an option typed on the command line, which is kept, and a value for
\* an option left at its default, which is taken
C20_Witness ==
    /\ k_tool \in Tools
    /\ k_call.called
    /\ \E i \in DOMAIN param_mapping(k_tool) :
          LET cli_param == param_mapping(k_tool)[i][1]
              config_key == param_mapping(k_tool)[i][2]
          IN /\ k_cmdline[cli_param] # get_default[cli_param]
             /\ config_key \in k_config.keys
             /\ Configured[config_key] # k_cmdline[cli_param]
             /\ k_args[cli_param] = k_cmdline[cli_param]
    /\ \E i \in DOMAIN param_mapping(k_tool) :
          LET cli_param == param_mapping(k_tool)[i][1]
              config_key == param_mapping(k_tool)[i][2]
          IN /\ k_cmdline[cli_param] = get_default[cli_param]
             /\ k_args[cli_param] = Configured[config_key]
             /\ k_args[cli_param] # k_cmdline[cli_param]

\* C21 (as claimed): a valid JSON configuration file that omits keys of
\* param_mapping is accepted by both tools: the merge reports no error, each
\* omitted parameter keeps its command-line or default value, and the run
\* goes on to the validation and the render.
C21_PartialConfigAccepted ==
    [][(k_pc = "config" /\ k_config.file = "ok") =>
          /\ k_pc' = "validate"
          /\ k_exit' = "running"
          /\ \A i \in DOMAIN param_mapping(k_tool) :
                param_mapping(k_tool)[i][2] \notin k_config.keys =>
                    k_args'[param_mapping(k_tool)[i][1]] =
                        k_cmdline[param_mapping(k_tool)[i][1]]]_vars

\* The hardcover transform has stitched a list of one spine image.
SingleSpine ==
    /\ Stitched
    /\ Len(g_in.hardcover_spines) = 1

\* C22 (as claimed): a single-element spine list yields exactly the curl
\* processor's output for that spine: the segment keeps the pivot dimensions
\* int(pivot_width_px) x int(pivot_height) through the chained rescale and is
\* pasted with vertical offset 0 at column 0.
C22_SingleSpineIsCurlOutput ==
    SingleSpine =>
        LET seg == g_out.spine.segments[1]
            place == g_out.spine.placements[1]
        IN /\ seg.image = seg.curled_image
           /\ seg.image = Shape(Trunc(g_out.params.cover_height), Trunc(seg.pivot_width_px))
           /\ place.placed
           /\ place.y_offset = 0
           /\ place.start_x = 0

\* The loop of lines 168-214 has computed at least one hardcover segment.
SegmentsComputed ==
    /\ "spine" \in DOMAIN g_out
    /\ g_in.book_type = "hardcover"
    /\ Len(g_out.spine.segments) >= 1

\* the display height of segment k follows from segment k - 1 as in lines
\* 195 and 209
ChainedHeight(k) ==
    LET segs == g_out.spine.segments
    IN IF k = 1 THEN segs[1].display_height = Trunc(g_out.params.cover_height)
       ELSE segs[k].display_height =
                Trunc(RSub(RSub(RInt(segs[k - 1].display_height), segs[k - 1].top),
                           segs[k - 1].bottom))

ValidGeometry ==
    /\ g_in.angle.sin[1] > 0 /\ g_in.angle.cos[1] > 0
    /\ g_in.spine_angle.sin[1] > 0 /\ g_in.spine_angle.cos[1] >= 0
    /\ g_in.cover_width[1] > 0
    /\ g_in.book_distance[1] > 0
    /\ g_in.camera_height_ratio[1] >= 0
    /\ g_in.camera_height_ratio[1] <= g_in.camera_height_ratio[2]
    /\ ~IsEmpty(g_in.cover) /\ ~IsEmpty(g_in.spine)

\* C24 (as claimed): with valid geometry every segment of
\* _transform_spine_hardcover has display height >= 1 and display width >= 1,
\* for a spine list of any length: the chained rescale never requests a zero
\* or negative size.
C24_SegmentsStayPositive ==
    (SegmentsComputed /\ ValidGeometry) =>
        \A k \in 1..Len(g_out.spine.segments) :
            /\ g_out.spine.segments[k].display_height >= 1
            /\ g_out.spine.segments[k].display_width >= 1

\* C25 (as claimed): in the curl processor normalized_x is 1 at the leftmost
\* column x = 0, so for every width w >= 1 the leftmost column's top and
\* bottom offsets have the full magnitude of spine_offset_y_top and
\* spine_offset_y_bottom (as integers: their truncations).
C25_LeftmostColumnFullOffset ==
    q_pc \in {"columns", "done"} =>
        /\ q_out.normalized_x[0] = RInt(1)
        /\ -q_out.top_offset[0] = Trunc(q_in.spine_offset_y_top)
        /\ -q_out.bottom_offset[0] = Trunc(q_in.spine_offset_y_bottom)

\* the row the destination pixel (y, x) is taken from: y + displacement(y, x)
SourceRow(y, x) ==
    y + Displacement(q_in.h, y, q_out.top_offset[x], q_out.bottom_offset[x])

\* C26: after _process_spine_pixels_column, for every destination pixel
\* (y, x) the output mask is true exactly when the source row
\* new_y = y + displacement(y, x) is within [0, h) and the source mask at
\* (new_y, x) is true (a missing source mask counts as true everywhere); then
\* the pixel is a copy of the source pixel at (new_y, x); every pixel whose
\* output mask is false holds the background colour.
C26_MaskTracksCopiedContent ==
    q_pc = "done" =>
        \A c \in Cells(q_in.h, q_in.w) :
            LET y == c[1]
                x == c[2]
                new_y == SourceRow(y, x)
                content == /\ new_y >= 0 /\ new_y < q_in.h
                           /\ q_in.has_mask => q_in.mask[<<new_y, x>>]
            IN /\ q_out.mask[c] <=> content
               /\ q_out.mask[c] => q_out.image[c] = SourcePixel(q_in.w, new_y, x)
               /\ ~q_out.mask[c] => q_out.image[c] = Background

\* a finished run in which one pixel was copied from another row, one was
\* left without a source row and one was copied from an empty source cell
C26_Witness ==
    /\ q_pc = "done"
    /\ q_in.has_mask
    /\ \E c \in Cells(q_in.h, q_in.w) :
          /\ q_out.mask[c]
          /\ SourceRow(c[1], c[2]) # c[1]
    /\ \E c \in Cells(q_in.h, q_in.w) :
          SourceRow(c[1], c[2]) < 0 \/ SourceRow(c[1], c[2]) >= q_in.h
    /\ \E c \in Cells(q_in.h, q_in.w) :
          /\ SourceRow(c[1], c[2]) \in 0..(q_in.h - 1)
          /\ ~q_in.mask[<<SourceRow(c[1], c[2]), c[2]>>]
          /\ ~q_out.mask[c]

\* _calculate_transform_params has run on a cover_width > 0, a
\* book_distance > 0, a perspective angle in (0, 90) and a camera height
\* ratio in [0, 1].
CoverParamsValid ==
    /\ "params" \in DOMAIN g_out
    /\ g_in.cover_width[1] > 0
    /\ g_in.book_distance[1] > 0
    /\ g_in.angle.sin[1] > 0 /\ g_in.angle.cos[1] > 0
    /\ g_in.camera_height_ratio[1] >= 0
    /\ g_in.camera_height_ratio[1] <= g_in.camera_height_ratio[2]

\* C27: for cover_width > 0, book_distance > 0, a perspective angle in
\* (0, 90) and a camera height ratio in [0, 1] the cover offsets satisfy
\* offset_y_top >= 0, offset_y_bottom >= 0 and
\* offset_y_top + offset_y_bottom < cover_height: the far edge of the cover's
\* destination quadrilateral, from (display_cover_width, offset_y_top) to
\* (display_cover_width, cover_height - offset_y_bottom), has positive length
\* and lies between the rows 0 and cover_height.
C27_CoverOffsetsInsideHeight ==
    CoverParamsValid =>
        LET p == g_out.params
            far_top == p.offset_y_top
            far_bottom == RSub(p.cover_height, p.offset_y_bottom)
        IN /\ p.offset_y_top[1] >= 0
           /\ p.offset_y_bottom[1] >= 0
           /\ RSub(p.cover_height, RAdd(p.offset_y_top, p.offset_y_bottom))[1] > 0
           /\ RSub(far_bottom, far_top)[1] > 0
           /\ far_top[1] >= 0
           /\ RSub(p.cover_height, far_bottom)[1] >= 0

\* the cover has been warped with both offsets positive
C27_Witness ==
    /\ CoverParamsValid
    /\ "cover" \in DOMAIN g_out
    /\ g_out.cover.err = "none"
    /\ g_out.params.offset_y_top[1] > 0
    /\ g_out.params.offset_y_bottom[1] > 0

\* C28: after every run of setup_ui the spine_spread_angle handed on in
\* UIParams lies between 0 and 90 - perspective_angle, also when the
\* perspective angle was raised after a larger spread angle had been stored
\* in the session state or imported.
C28_SpreadWithinRange ==
    u_params.returned =>
        /\ 0 <= u_params.spine_spread_angle
        /\ u_params.spine_spread_angle <= 90 - u_params.perspective_angle

\* a run that found a larger angle than the perspective angle allows (line 76)
\* and handed on the largest allowed one
C28_Witness ==
    /\ u_params.returned
    /\ u_hist.clamped
    /\ u_params.perspective_angle = 80
    /\ u_params.spine_spread_angle = 10

\* C29: a configuration file left in the uploader is imported at most once:
\* config_processed becomes true with the import and goes back to false only
\* in a run that finds the uploader empty, so no interaction is followed by
\* more than one st.rerun().
C29_ImportedAtMostOnce ==
    /\ [](u_hist.imports <= 1 /\ u_hist.reruns <= 1)
    /\ [][/\ (u_session'.imported_config # u_session.imported_config
                  => u_session'.config_processed /\ u_pc' = "sidebar")
          /\ (u_session.config_processed /\ ~u_session'.config_processed
                  => ~u_widgets.uploaded_config.present)]_vars

\* the file was imported, stayed in the uploader, and a later interaction
\* was served without another import
C29_Witness ==
    /\ u_pc = "wait"
    /\ u_widgets.uploaded_config.present
    /\ u_session.config_processed
    /\ u_hist.imports = 1
    /\ u_hist.reruns = 0

====
